---- MODULE Spec2Model ----
(***************************************************************************)
(* ovn-nbctl (ovn/utilities/ovn-nbctl.c): the Sync/Retry loop of main(),   *)
(* run_prerequisites(), the transaction engine do_nbctl() and the fatal    *)
(* exit path nbctl_exit().  The IDL session, the transaction object and    *)
(* the generic database commands (create, set, wait-until, list) live in   *)
(* other files of the repository; the parts of them that the engine        *)
(* observes are modelled from the design document and marked so.           *)
(***************************************************************************)
EXTENDS Integers, Sequences, FiniteSets, TLC

\* ------------------------------------------------------------------ bounds
\* Largest database sequence number the session reaches in a run.
MaxSeqno == 3
\* Largest number of commands in a batch.
MaxCmds == 2
\* Largest number of Logical_Switch rows named "sw0" in the store.
MaxRows == 1
\* Largest number of ACL rows on a switch.
MaxAcls == 1
\* Largest length of the text a command leaves in its output buffer, where
\* the output loop is checked on its own.
MaxLen == 6
\* Largest number of options before the first command, where the parsing of
\* the options is checked on its own.
MaxOpts == 3
\* Largest number of arguments given to a command whose max_args is INT_MAX,
\* where the argument reads of the handlers are checked on their own.
MaxArgs == 5

NULL == "NULL"
\* exit_status: RUNNING until the process ends, then how it ended.
RUNNING == "RUNNING"
EXIT_SUCCESS == "EXIT_SUCCESS"
EXIT_FAILURE == "EXIT_FAILURE"
\* The process was killed by abort() (OVS_NOT_REACHED, ovs_assert).
SIGABRT == "SIGABRT"

VARIABLES
    pc,          \* position of the single thread of control
    i,           \* index of the command a loop of run_prerequisites/do_nbctl is at
    commands,    \* main(): struct ctl_command commands[n_commands]
    dry_run,     \* --dry-run
    oneline,     \* --oneline
    seqno,       \* main(): sequence number of the last attempt
    idl,         \* the session: [seqno, alive, last_error, destroyed]
    store,       \* the database as replicated by the session: [sw, acl]
    the_idl_txn, \* global handle used by nbctl_exit(): 0 (null) or a transaction
    txn,         \* do_nbctl(): local handle: 0 (null) or a transaction
    txns,        \* every transaction created so far, by handle
    symtab,      \* do_nbctl(): the symbol table: [live, sh]
    ctx,         \* do_nbctl(): struct ctl_context: [try_again]
    status,      \* do_nbctl(): result of ovsdb_idl_txn_commit_block()
    stdout,      \* what was written to standard output, block by block
    stderr,      \* fatal diagnostics written to the error stream
    warnings,    \* VLOG_WARN messages
    exit_status, \* RUNNING, else the process's exit status
    steps,       \* the steps of the current attempt, in the order taken
    attempts,    \* value of seqno at the start of every attempt so far
    parsed,      \* the batch as ctl_parse_commands() returned it
    prereq_runs, \* how often each command's prerequisite phase has run
    retry_signals, \* <<attempt, command>> of every mutate phase that set try_again
    optv,        \* parse_options(): the options getopt_long() has still to return
    local_options, \* parse_options(): the shash of command-specific options
    argv_reads   \* the indices of ctx->argv the running handler has read, in order

vars == <<pc, i, commands, dry_run, oneline, seqno, idl, store, the_idl_txn, txn,
          txns, symtab, ctx, status, stdout, stderr, warnings, exit_status,
          steps, attempts, parsed, prereq_runs, retry_signals, optv,
          local_options, argv_reads>>

\* ------------------------------------------------------------------ text
\* Text is a sequence of characters; LF is the newline, BS the backslash.
LF == "\n"
BS == "\\"

RECURSIVE Repeat(_, _)
Repeat(s, n) == IF n = 0 THEN <<>> ELSE s \o Repeat(s, n - 1)

\* ------------------------------------------------------------------ commands
\* enum ovsdb_idl_txn_status
TXN_UNCOMMITTED == "TXN_UNCOMMITTED"
TXN_UNCHANGED == "TXN_UNCHANGED"
TXN_INCOMPLETE == "TXN_INCOMPLETE"
TXN_ABORTED == "TXN_ABORTED"
TXN_SUCCESS == "TXN_SUCCESS"
TXN_TRY_AGAIN == "TXN_TRY_AGAIN"
TXN_NOT_LOCKED == "TXN_NOT_LOCKED"
TXN_ERROR == "TXN_ERROR"
\* A value outside the enumeration (the switch's default case).
TXN_OTHER == "TXN_OTHER"

TxnStatus == {TXN_UNCOMMITTED, TXN_UNCHANGED, TXN_INCOMPLETE, TXN_ABORTED,
              TXN_SUCCESS, TXN_TRY_AGAIN, TXN_NOT_LOCKED, TXN_ERROR, TXN_OTHER}

\* The command table: name -> [min_args, max_args, prerequisites, run,
\* postprocess, options, mode].  The first four rows are rows of
\* nbctl_commands[]; the others are the generic database commands that
\* ctl_init() registers.
nbctl_commands ==
    [name \in {"lswitch-add", "lswitch-list", "acl-list", "lport-add"} |->
        CASE name = "lswitch-add" ->
                [min_args |-> 0, max_args |-> 1, prerequisites |-> FALSE,
                 run |-> TRUE, postprocess |-> FALSE,
                 options |-> {"--may-exist", "--add-duplicate"}, mode |-> "RW"]
          [] name = "lswitch-list" ->
                [min_args |-> 0, max_args |-> 0, prerequisites |-> FALSE,
                 run |-> TRUE, postprocess |-> FALSE, options |-> {}, mode |-> "RO"]
          [] name = "acl-list" ->
                [min_args |-> 1, max_args |-> 1, prerequisites |-> FALSE,
                 run |-> TRUE, postprocess |-> FALSE, options |-> {}, mode |-> "RO"]
          [] name = "lport-add" ->
                [min_args |-> 2, max_args |-> 4, prerequisites |-> FALSE,
                 run |-> TRUE, postprocess |-> FALSE,
                 options |-> {"--may-exist"}, mode |-> "RW"]]

db_ctl_commands ==
    [name \in {"create", "set", "wait-until", "list"} |->
        CASE name = "create" ->
                [min_args |-> 2, max_args |-> 2, prerequisites |-> TRUE,
                 run |-> TRUE, postprocess |-> TRUE, options |-> {"--id"},
                 mode |-> "RW"]
          [] name = "set" ->
                [min_args |-> 2, max_args |-> 2, prerequisites |-> TRUE,
                 run |-> TRUE, postprocess |-> FALSE, options |-> {}, mode |-> "RW"]
          [] name = "wait-until" ->
                [min_args |-> 1, max_args |-> 1, prerequisites |-> TRUE,
                 run |-> TRUE, postprocess |-> FALSE, options |-> {}, mode |-> "RO"]
          [] name = "list" ->
                [min_args |-> 1, max_args |-> 1, prerequisites |-> TRUE,
                 run |-> TRUE, postprocess |-> FALSE, options |-> {}, mode |-> "RO"]]

\* Commands whose handlers break a rule the engine sets for them, or fail
\* where no registered handler does: a read-phase that appends to the
\* command's output, one that appends and clears it again, one that sets the
\* command's table, and a post-commit phase that calls ctl_fatal().
\* ovn-nbctl registers no such command; the engine calls whatever function
\* the table holds, and the assertions of run_prerequisites() and the exit
\* function are there for these.
rogue_commands ==
    [name \in {"pre-output", "pre-clear", "pre-table", "post-fatal"} |->
        IF name = "post-fatal"
        THEN [min_args |-> 0, max_args |-> 0, prerequisites |-> FALSE,
              run |-> FALSE, postprocess |-> TRUE, options |-> {}, mode |-> "RW"]
        ELSE [min_args |-> 0, max_args |-> 0, prerequisites |-> TRUE,
              run |-> FALSE, postprocess |-> FALSE, options |-> {}, mode |-> "RO"]]

Syntax(name) ==
    IF name \in DOMAIN nbctl_commands THEN nbctl_commands[name]
    ELSE IF name \in DOMAIN db_ctl_commands THEN db_ctl_commands[name]
    ELSE rogue_commands[name]

\* A parsed command.  argv[1] is the command name, as in C's argv[0];
\* options is the set of <<name, value>> pairs of the command's shash;
\* output is a struct ds: string is NULL until something is appended.
Cmd(name, args, opts) ==
    [syntax |-> name, argv |-> <<name>> \o args, options |-> opts,
     output |-> [string |-> NULL, text |-> <<>>], table |-> NULL]

CommandPool ==
    { Cmd("lswitch-list", <<>>, {}),
      Cmd("acl-list", <<"sw0">>, {}),
      Cmd("lswitch-add", <<"sw0">>, {}),
      Cmd("create", <<"Logical_Switch", "name=sw0">>, {}),
      Cmd("create", <<"Logical_Switch", "name=sw0">>, {<<"--id", "@a">>}),
      Cmd("set", <<"@a", "strong">>, {}),
      Cmd("set", <<"@a", "weak">>, {}),
      Cmd("set", <<"@b", "strong">>, {}),
      Cmd("wait-until", <<"sw0">>, {}),
      Cmd("list", <<"Logical_Switch">>, {}) }

Batches ==
    UNION { [1..n -> CommandPool] : n \in 1..MaxCmds }

n_commands == Len(parsed)

\* ------------------------------------------------------------------ handlers
\* What one call of a handler does: kind is "ok", "try_again" (ctx->try_again
\* was set) or "fatal" (ctl_fatal() was called); out is the text appended to
\* ctx->output, direct the blocks written to stdout by the handler itself,
\* table whether ctx->table was set, ops the operations queued on the
\* transaction, sh the symbol table afterwards, msg the fatal diagnostic.
Effect(kind, out, direct, table, ops, sh, msg) ==
    [kind |-> kind, out |-> out, direct |-> direct, table |-> table,
     ops |-> ops, sh |-> sh, msg |-> msg]

Ok(out, ops, sh) == Effect("ok", out, <<>>, FALSE, ops, sh, <<>>)
FatalEffect(sh, msg) == Effect("fatal", <<>>, <<>>, FALSE, <<>>, sh, msg)

InsertSwitch(name) == [op |-> "insert", table |-> "Logical_Switch", name |-> name]

\* A Logical_Port row: its name, the switch whose ports column holds it,
\* parent_name (NULL when not set) and tag (-1 when the column is empty).
Port(name, lswitch, parent_name, tag) ==
    [name |-> name, lswitch |-> lswitch, parent_name |-> parent_name, tag |-> tag]

\* nbrec_logical_port_insert() and the setters that follow it.
InsertPort(row) ==
    [op |-> "insert", table |-> "Logical_Port", name |-> row.name, row |-> row]

\* nbrec_logical_switch_set_ports(lswitch, new_ports, n_ports + 1)
SetPorts(lswitch, lport_name) ==
    [op |-> "set_ports", table |-> "Logical_Switch", name |-> lswitch,
     added |-> lport_name]

\* The rows the handlers iterate over: the replica plus the rows inserted
\* earlier in the same transaction.
View(st, ops) ==
    [sw |-> st.sw + Cardinality({k \in 1..Len(ops) :
                                   /\ ops[k].op = "insert"
                                   /\ ops[k].table = "Logical_Switch"
                                   /\ ops[k].name = "sw0"}),
     acl |-> st.acl,
     lports |-> st.lports \cup
                {ops[k].row : k \in {j \in 1..Len(ops) :
                                        /\ ops[j].op = "insert"
                                        /\ ops[j].table = "Logical_Port"}}]

\* lswitch_by_name_or_uuid(ctx, id, must_exist): row is "found" or "none",
\* fatal the diagnostic of ctl_fatal() (empty when it was not called).
lswitch_by_name_or_uuid(view, id, must_exist) ==
    LET n == IF id = "sw0" THEN view.sw ELSE 0 IN
    IF n > 1
    THEN [row |-> "none", fatal |-> <<"Multiple logical switches named", id>>]
    ELSE IF n = 0 /\ must_exist
    THEN [row |-> "none", fatal |-> <<"lswitch name not found", id>>]
    ELSE [row |-> IF n = 0 THEN "none" ELSE "found", fatal |-> <<>>]

\* C's argc and argv[k] of a command (argv[0] is the command name).
Argc(c) == Len(c.argv)
Argv(c, k) == c.argv[k + 1]
HasOption(c, name) == \E o \in c.options : o[1] = name
OptionValue(c, name) == (CHOOSE o \in c.options : o[1] = name)[2]

\* The handler inserting a row whatever the flags and the rows present.
lswitch_add_unchecked(c, view, sh) ==
    Ok(<<>>, <<InsertSwitch(IF Argc(c) = 2 THEN Argv(c, 1) ELSE NULL)>>, sh)

nbctl_lswitch_add(c, view, sh) ==
    LET lswitch_name == IF Argc(c) = 2 THEN Argv(c, 1) ELSE NULL
        may_exist == HasOption(c, "--may-exist")
        add_duplicate == HasOption(c, "--add-duplicate")
        exists == lswitch_name = "sw0" /\ view.sw > 0
    IN  IF may_exist /\ add_duplicate
        THEN FatalEffect(sh, <<"--may-exist and --add-duplicate may not be used together">>)
        ELSE IF lswitch_name # NULL /\ ~add_duplicate /\ exists /\ may_exist
        THEN Ok(<<>>, <<>>, sh)
        ELSE IF lswitch_name # NULL /\ ~add_duplicate /\ exists
        THEN FatalEffect(sh, <<"an lswitch with this name already exists", lswitch_name>>)
        ELSE IF lswitch_name = NULL /\ may_exist
        THEN FatalEffect(sh, <<"--may-exist requires specifying a name">>)
        ELSE IF lswitch_name = NULL /\ add_duplicate
        THEN FatalEffect(sh, <<"--add-duplicate requires specifying a name">>)
        ELSE Ok(<<>>, <<InsertSwitch(lswitch_name)>>, sh)

nbctl_lswitch_list(c, view, sh) ==
    Ok(Repeat(<<"s", LF>>, view.sw), <<>>, sh)

\* acl-list writes each ACL with printf(), not into ctx->output.
nbctl_acl_list(c, view, sh) ==
    LET lswitch == lswitch_by_name_or_uuid(view, Argv(c, 1), TRUE) IN
    IF lswitch.fatal # <<>> THEN FatalEffect(sh, lswitch.fatal)
    ELSE Effect("ok", <<>>, [k \in 1..view.acl |-> <<"r", LF>>], FALSE, <<>>, sh, <<>>)

\* lport_by_name_or_uuid(ctx, id, must_exist): the rows named id (the loop
\* stops at the first it meets), or a fatal diagnostic.
lport_by_name_or_uuid(view, id, must_exist) ==
    LET named == {r \in view.lports : r.name = id} IN
    IF named = {} /\ must_exist
    THEN [rows |-> {}, fatal |-> <<"lport name not found", id>>]
    ELSE [rows |-> named, fatal |-> <<>>]

\* ovs_scan(s, "%"SCNd64, &tag): the argument read as a decimal number.
ovs_scan(s) ==
    CASE s = "-1" -> [ok |-> TRUE, value |-> -1]
      [] s = "0" -> [ok |-> TRUE, value |-> 0]
      [] s = "4095" -> [ok |-> TRUE, value |-> 4095]
      [] s = "4096" -> [ok |-> TRUE, value |-> 4096]
      [] OTHER -> [ok |-> FALSE, value |-> 0]

\* The arguments taken without the test of their number and of the tag.
lport_add_args_unchecked(c) ==
    [parent_name |-> IF Argc(c) >= 4 THEN Argv(c, 3) ELSE NULL,
     tag |-> IF Argc(c) = 5 THEN ovs_scan(Argv(c, 4)).value ELSE -1,
     fatal |-> <<>>]

\* Lines 571-584: parent_name and tag from the number of arguments.
lport_add_args(c) ==
    IF Argc(c) = 3 THEN [parent_name |-> NULL, tag |-> -1, fatal |-> <<>>]
    ELSE IF Argc(c) = 5
    THEN LET scan == ovs_scan(Argv(c, 4)) IN
         IF ~scan.ok \/ scan.value < 0 \/ scan.value > 4095
         THEN [parent_name |-> Argv(c, 3), tag |-> -1,
               fatal |-> <<"invalid tag", Argv(c, 4)>>]
         ELSE [parent_name |-> Argv(c, 3), tag |-> scan.value, fatal |-> <<>>]
    ELSE [parent_name |-> NULL, tag |-> -1,
          fatal |-> <<"lport-add with parent must also specify a tag">>]

\* Lines 588-621: the checks on a port that already has the name.
lport_exists_fatal(lport, lswitch_name, may_exist, parent_name, tag) ==
    IF ~may_exist
    THEN <<"an lport with this name already exists", lport.name>>
    ELSE IF lport.lswitch # lswitch_name
    THEN <<"lport already exists but in lswitch", lport.lswitch>>
    ELSE IF parent_name # NULL /\ lport.parent_name = NULL
    THEN <<"lport already exists but has no parent", lport.name>>
    ELSE IF parent_name # NULL /\ parent_name # lport.parent_name
    THEN <<"lport already exists with different parent", lport.parent_name>>
    ELSE IF parent_name # NULL /\ lport.tag < 0
    THEN <<"lport already exists but has no tag", lport.name>>
    ELSE IF parent_name # NULL /\ lport.tag # tag
    THEN <<"lport already exists with different tag", lport.name>>
    ELSE IF parent_name = NULL /\ lport.parent_name # NULL
    THEN <<"lport already exists but has parent", lport.parent_name>>
    ELSE <<>>

nbctl_lport_add(c, view, sh) ==
    LET may_exist == HasOption(c, "--may-exist")
        lswitch == lswitch_by_name_or_uuid(view, Argv(c, 1), TRUE)
        args == lport_add_args(c)
        lport_name == Argv(c, 2)
        lport == lport_by_name_or_uuid(view, lport_name, FALSE)
    IN  IF lswitch.fatal # <<>> THEN FatalEffect(sh, lswitch.fatal)
        ELSE IF args.fatal # <<>> THEN FatalEffect(sh, args.fatal)
        ELSE IF lport.rows # {}
        THEN LET row == CHOOSE r \in lport.rows : TRUE
                 fatal == lport_exists_fatal(row, Argv(c, 1), may_exist,
                                             args.parent_name, args.tag)
             IN  IF fatal # <<>> THEN FatalEffect(sh, fatal)
                 ELSE Ok(<<>>, <<>>, sh)
        ELSE Ok(<<>>,
                <<InsertPort(Port(lport_name, Argv(c, 1),
                                  IF args.tag >= 0 THEN args.parent_name ELSE NULL,
                                  args.tag)),
                  SetPorts(Argv(c, 1), lport_name)>>,
                sh)

\* ovsdb_symbol_table_insert(): the symbol, added with no flag set when new.
Symbol(sh, name) ==
    IF name \in DOMAIN sh THEN sh[name]
    ELSE [created |-> FALSE, strong_ref |-> FALSE, weak_ref |-> FALSE]

PutSymbol(sh, name, sym) ==
    [s \in DOMAIN sh \cup {name} |-> IF s = name THEN sym ELSE sh[s]]

\* create [--id=@NAME] TABLE name=sw0: creates the symbol, queues the insert and
\* writes the provisional row identifier to the output.
cmd_create(c, view, sh) ==
    IF ~HasOption(c, "--id") THEN Ok(<<"u">>, <<InsertSwitch("sw0")>>, sh)
    ELSE LET id == OptionValue(c, "--id")
             sym == Symbol(sh, id)
         IN  IF sym.created
             THEN FatalEffect(PutSymbol(sh, id, sym),
                              <<"row id may only be specified on one --id option", id>>)
             ELSE Ok(<<"u">>, <<InsertSwitch("sw0")>>,
                     PutSymbol(sh, id, [sym EXCEPT !.created = TRUE]))

\* set REF KIND: stores a reference to the symbol REF in a column whose
\* reference type is KIND.
cmd_set(c, view, sh) ==
    LET id == Argv(c, 1)
        sym == Symbol(sh, id)
    IN  Ok(<<>>, <<>>,
           PutSymbol(sh, id, IF Argv(c, 2) = "strong"
                             THEN [sym EXCEPT !.strong_ref = TRUE]
                             ELSE [sym EXCEPT !.weak_ref = TRUE]))

\* wait-until RECORD: asks for a retry while the record does not exist.
cmd_wait_until(c, view, sh) ==
    IF view.sw = 0
    THEN Effect("try_again", <<>>, <<>>, FALSE, <<>>, sh, <<>>)
    ELSE Ok(<<>>, <<>>, sh)

\* list TABLE: produces a table.
cmd_list(c, view, sh) ==
    Effect("ok", <<>>, <<>>, TRUE, <<>>, sh, <<>>)

\* (c->syntax->run)(&ctx)
Run(c, view, sh) ==
    CASE c.syntax = "lswitch-add" -> nbctl_lswitch_add(c, view, sh)
      [] c.syntax = "lswitch-list" -> nbctl_lswitch_list(c, view, sh)
      [] c.syntax = "acl-list" -> nbctl_acl_list(c, view, sh)
      [] c.syntax = "lport-add" -> nbctl_lport_add(c, view, sh)
      [] c.syntax = "create" -> cmd_create(c, view, sh)
      [] c.syntax = "set" -> cmd_set(c, view, sh)
      [] c.syntax = "wait-until" -> cmd_wait_until(c, view, sh)
      [] c.syntax = "list" -> cmd_list(c, view, sh)

\* post_create(): replaces the provisional identifier by the one the server
\* assigned, followed by a newline.
post_create(c) == <<"U", LF>>

\* table_print(c->table, &table_style)
table_print(table) == <<"t", LF, "t", LF>>

\* ------------------------------------------------------------------ output
\* ds_put_*(&ctx->output, ...): appending allocates the string.
ds_put(ds, text) ==
    IF text = <<>> THEN ds ELSE [string |-> "allocated", text |-> ds.text \o text]

\* ds_chomp(ds, '\n'): drops one trailing newline.
ds_chomp(text) ==
    IF Len(text) > 0 /\ text[Len(text)] = LF
    THEN SubSeq(text, 1, Len(text) - 1) ELSE text

\* The switch without its backslash case.
EscapeCharKeepsBackslash(ch) ==
    IF ch = LF THEN <<BS, "n">> ELSE <<ch>>

\* The switch of the single-line loop, for one character.
EscapeChar(ch) ==
    IF ch = LF THEN <<BS, "n">>
    ELSE IF ch = BS THEN <<BS, BS>>
    ELSE <<ch>>

RECURSIVE Escape(_)
Escape(text) ==
    IF text = <<>> THEN <<>>
    ELSE EscapeChar(Head(text)) \o Escape(Tail(text))

\* What the output loop writes for one command.
OutputBlock(c) ==
    IF c.table # NULL THEN table_print(c.table)
    ELSE IF oneline THEN Escape(ds_chomp(c.output.text)) \o <<LF>>
    ELSE c.output.text

\* ds_init(&c->output); c->table = NULL
ResetOutput(c) ==
    [c EXCEPT !.output = [string |-> NULL, text |-> <<>>], !.table = NULL]

\* A write to stdout: the command it belongs to, the phase it came from.
Block(k, text, phase) == [cmd |-> k, text |-> text, phase |-> phase]

\* ------------------------------------------------------------------ state
\* The contents the replica can have: ACLs belong to a switch, which has
\* none or MaxAcls of them.
Stores ==
    {st \in [sw : 0..MaxRows, acl : {0, MaxAcls}, lports : {{}}] :
        st.sw = 0 => st.acl = 0}

NoSymbols == [s \in {} |-> [created |-> FALSE, strong_ref |-> FALSE,
                            weak_ref |-> FALSE]]

\* ctl_context_init(&ctx, c, idl, txn, symtab, NULL): the context carries the
\* transaction and the symbol table it is given (0 and NULL when absent).
ctl_context_init(t, st) == [try_again |-> FALSE, txn |-> t, symtab |-> st]

\* The record of a transaction that is not the one of the current attempt
\* keeps neither the replica it was built on nor the output mark.
NoBase == [sw |-> 0, acl |-> 0, lports |-> {}]

\* ovsdb_idl_txn_create(idl).  applied records the operations the commit
\* persisted in the store, base the replica the transaction is built on,
\* mark the number of blocks on standard output when it was created.
NewTxn ==
    [state |-> "open", dry_run |-> FALSE, comment |-> NULL, ops |-> <<>>,
     status |-> TXN_UNCOMMITTED, commits |-> 0, aborts |-> 0, destroys |-> 0,
     error |-> NULL, applied |-> <<>>, base |-> NoBase, mark |-> 0]

\* The state when run_prerequisites() is called, for a batch of batches.
InitWith(batches) ==
    /\ commands \in batches
    /\ parsed = commands
    /\ dry_run \in BOOLEAN
    /\ oneline \in BOOLEAN
    /\ pc = "prerequisites"
    /\ i = 1
    /\ seqno = 0
    /\ idl = [seqno |-> 0, alive |-> TRUE, last_error |-> NULL, destroyed |-> FALSE]
    /\ store = [sw |-> 0, acl |-> 0, lports |-> {}]
    /\ the_idl_txn = 0
    /\ txn = 0
    /\ txns = <<>>
    /\ symtab = [live |-> FALSE, sh |-> NoSymbols]
    /\ ctx = ctl_context_init(0, NULL)
    /\ status = TXN_UNCOMMITTED
    /\ stdout = <<>>
    /\ stderr = <<>>
    /\ warnings = <<>>
    /\ exit_status = RUNNING
    /\ steps = <<>>
    /\ attempts = <<>>
    /\ prereq_runs = [k \in 1..Len(commands) |-> 0]
    /\ retry_signals = {}
    /\ optv = <<>>
    /\ local_options = <<>>
    /\ argv_reads = <<>>

Init == InitWith(Batches)

\* ------------------------------------------------------------------ exit
\* The transaction aborted and left alive.
AbortOnly(tx, t) == [tx EXCEPT ![t].aborts = @ + 1]

\* ovsdb_idl_txn_abort(t); ovsdb_idl_txn_destroy(t)
AbortAndDestroy(tx, t) ==
    [tx EXCEPT ![t].aborts = @ + 1, ![t].destroys = @ + 1,
               ![t].state = "destroyed"]

\* nbctl_exit(st), with the transactions and the session as the caller
\* leaves them.
nbctl_exit(st, tx, id) ==
    /\ txns' = IF the_idl_txn # 0 THEN AbortAndDestroy(tx, the_idl_txn) ELSE tx
    /\ idl' = [id EXCEPT !.destroyed = TRUE]
    /\ exit_status' = st
    /\ pc' = "exited"

\* ctl_fatal(msg): one diagnostic, then the registered exit function.
ctl_fatal(msg, tx, id) ==
    /\ stderr' = Append(stderr, msg)
    /\ nbctl_exit(EXIT_FAILURE, tx, id)

\* abort(), from OVS_NOT_REACHED() or a failed ovs_assert().
ovs_abort(msg) ==
    /\ stderr' = Append(stderr, msg)
    /\ exit_status' = SIGABRT
    /\ pc' = "exited"
    /\ UNCHANGED <<txns, idl>>

\* ------------------------------------------------------------------ main
\* No command taken to have a prerequisite function.
PrerequisitesSkipped(c) == FALSE

\* if (c->syntax->prerequisites)
HasPrerequisites(c) == Syntax(c.syntax).prerequisites

\* (c->syntax->prerequisites)(&ctx): the command after its read-phase.  The
\* prerequisite functions of the generic commands only register the columns
\* they will read.
Prerequisites(c) ==
    CASE c.syntax = "pre-output" -> [c EXCEPT !.output = ds_put(@, <<"x", LF>>)]
      [] c.syntax = "pre-clear" ->
            [c EXCEPT !.output = [string |-> "allocated", text |-> <<>>]]
      [] c.syntax = "pre-table" -> [c EXCEPT !.table = "table"]
      [] OTHER -> c

\* The assertions compiled out.
AssertionsSkipped(c) == TRUE

\* ovs_assert(!c->output.string); ovs_assert(!c->table);
AssertionsHold(c) == c.output.string = NULL /\ c.table = NULL

\* run_prerequisites(): the prerequisite phase of command i, then the
\* assertions on what it left in the command.
RunPrerequisites ==
    /\ pc = "prerequisites"
    /\ IF HasPrerequisites(commands[i])
       THEN LET c == Prerequisites(ResetOutput(commands[i]))
            IN  /\ commands' = [commands EXCEPT ![i] = c]
                /\ ctx' = ctl_context_init(0, NULL)
                /\ prereq_runs' = [prereq_runs EXCEPT ![i] = @ + 1]
                /\ IF AssertionsHold(c)
                   THEN /\ pc' = IF i < n_commands THEN pc ELSE "loop"
                        /\ UNCHANGED <<txns, idl, stderr, exit_status>>
                   ELSE ovs_abort(<<"assertion failed">>)
       ELSE /\ pc' = IF i < n_commands THEN pc ELSE "loop"
            /\ UNCHANGED <<commands, ctx, prereq_runs, txns, idl, stderr,
                           exit_status>>
    /\ IF pc' = "exited"
       THEN UNCHANGED <<i, seqno>>
       ELSE IF i < n_commands
       THEN /\ i' = i + 1
            /\ UNCHANGED seqno
       ELSE /\ i' = 1
            /\ seqno' = idl.seqno
    /\ UNCHANGED <<dry_run, oneline, store, the_idl_txn, txn, symtab,
                   status, stdout, warnings, steps, attempts, parsed, argv_reads, optv, local_options,
                   retry_signals>>

\* The liveness test always passing.
AlwaysAlive(id) == TRUE

\* The sequence numbers the session can have after processing its input:
\* unchanged, or advanced.  The program only compares sequence numbers for
\* equality, so an advance by several updates is represented by one step.
NextSeqnos(s) == {t \in {s, s + 1} : t <= MaxSeqno}

\* ovsdb_idl_is_alive(idl)
ovsdb_idl_is_alive(id) == id.alive

\* ovsdb_idl_run(idl), then the ovsdb_idl_is_alive() test.  The session may
\* have received any number of updates, or lost its connection for good (a
\* dead session receives nothing).
MainRun ==
    /\ pc = "loop"
    /\ \E alive \in BOOLEAN :
         \E s \in (IF alive THEN NextSeqnos(idl.seqno) ELSE {idl.seqno}) :
         \E st \in (IF s > idl.seqno THEN Stores ELSE {store}) :
            LET id == [idl EXCEPT !.seqno = s, !.alive = alive,
                                  !.last_error = IF alive THEN NULL ELSE "ECONNREFUSED"]
            IN  /\ store' = st
                /\ IF ~ovsdb_idl_is_alive(id)
                   THEN ctl_fatal(<<"database connection failed", id.last_error>>,
                                  txns, id)
                   ELSE /\ idl' = id
                        /\ pc' = "check_seqno"
                        /\ UNCHANGED <<txns, stderr, exit_status>>
    /\ UNCHANGED <<i, commands, dry_run, oneline, seqno, the_idl_txn, txn, symtab,
                   ctx, status, stdout, warnings, steps, attempts, parsed, argv_reads, optv, local_options,
                   prereq_runs, retry_signals>>

\* The attempt never made.
SeqnoChangedNever == FALSE

\* The attempt made whatever the sequence number.
SeqnoChangedAlways == TRUE

\* if (seqno != ovsdb_idl_get_seqno(idl))
SeqnoChanged == seqno # idl.seqno

\* The sequence number read at start-up returned for good.
ovsdb_idl_get_seqno_stale(id) == 0

\* ovsdb_idl_get_seqno(idl)
ovsdb_idl_get_seqno(id) == id.seqno

\* Lines 126-128: start an attempt if the sequence number changed.
MainCheckSeqno ==
    /\ pc = "check_seqno"
    /\ IF SeqnoChanged
       THEN /\ seqno' = ovsdb_idl_get_seqno(idl)
            /\ attempts' = Append(attempts, idl.seqno)
            /\ pc' = "txn_create"
       ELSE /\ pc' = "wait_check"
            /\ UNCHANGED <<seqno, attempts>>
    /\ UNCHANGED <<i, commands, dry_run, oneline, idl, store, the_idl_txn, txn, txns,
                   symtab, ctx, status, stdout, stderr, warnings, exit_status,
                   steps, parsed, argv_reads, optv, local_options, prereq_runs, retry_signals>>

\* The wait made whatever the sequence number.
SeqnoUnchangedAlways == TRUE

\* if (seqno == ovsdb_idl_get_seqno(idl))
SeqnoUnchanged == seqno = idl.seqno

\* Lines 134-137: block unless the sequence number changed meanwhile.
MainWaitCheck ==
    /\ pc = "wait_check"
    /\ pc' = IF SeqnoUnchanged THEN "poll_block" ELSE "loop"
    /\ UNCHANGED <<i, commands, dry_run, oneline, seqno, idl, store, the_idl_txn,
                   txn, txns, symtab, ctx, status, stdout, stderr, warnings,
                   exit_status, steps, attempts, parsed, argv_reads, optv, local_options, prereq_runs, retry_signals>>

\* ovsdb_idl_wait(idl); poll_block(): at position p the process sleeps until
\* the session has something for it.
InPollBlock(p) == p = "poll_block"

\* poll_block() returns when the session has something to process.
PollBlock ==
    /\ pc = "poll_block"
    /\ pc' = "loop"
    /\ UNCHANGED <<i, commands, dry_run, oneline, seqno, idl, store, the_idl_txn,
                   txn, txns, symtab, ctx, status, stdout, stderr, warnings,
                   exit_status, steps, attempts, parsed, argv_reads, optv, local_options, prereq_runs, retry_signals>>

\* ------------------------------------------------------------------ do_nbctl
Step(name, k) == [step |-> name, cmd |-> k]

\* The transaction left as created.
MarkDryRunNever(t) == t

\* if (dry_run) { ovsdb_idl_txn_set_dry_run(txn); }
MarkDryRun(t) == IF dry_run THEN [t EXCEPT !.dry_run = TRUE] ELSE t

\* Lines 1175-1178: create the transaction, mark it dry-run if asked.
TxnCreate ==
    /\ pc = "txn_create"
    /\ txns' = Append(txns, MarkDryRun([NewTxn EXCEPT !.base = store,
                                                     !.mark = Len(stdout)]))
    /\ txn' = Len(txns) + 1
    /\ the_idl_txn' = Len(txns) + 1
    /\ steps' = <<Step("txn_create", 0)>>
    /\ pc' = "add_comment"
    /\ UNCHANGED <<i, commands, dry_run, oneline, seqno, idl, store, symtab, ctx,
                   status, stdout, stderr, warnings, exit_status, attempts,
                   parsed, argv_reads, optv, local_options, prereq_runs, retry_signals>>

\* Line 1180: ovsdb_idl_txn_add_comment(txn, "ovs-nbctl: %s", args)
AddComment ==
    /\ pc = "add_comment"
    /\ txns' = [txns EXCEPT ![txn].comment = "ovs-nbctl: args"]
    /\ steps' = Append(steps, Step("add_comment", 0))
    /\ pc' = "symtab_create"
    /\ UNCHANGED <<i, commands, dry_run, oneline, seqno, idl, store, the_idl_txn,
                   txn, symtab, ctx, status, stdout, stderr, warnings,
                   exit_status, attempts, parsed, argv_reads, optv, local_options, prereq_runs, retry_signals>>

\* ovsdb_symbol_table_create()
ovsdb_symbol_table_create == [live |-> TRUE, sh |-> NoSymbols]

\* The symbol table kept instead of destroyed.
SymbolTableLeaked(st) == st

\* ovsdb_symbol_table_destroy(symtab)
ovsdb_symbol_table_destroy(st) == [live |-> FALSE, sh |-> NoSymbols]

\* Lines 1182-1187: the symbol table, the reset of every command's output,
\* the context.
SymtabCreate ==
    /\ pc = "symtab_create"
    /\ symtab' = ovsdb_symbol_table_create
    /\ commands' = [k \in 1..n_commands |-> ResetOutput(commands[k])]
    /\ ctx' = ctl_context_init(txn, "symtab")
    /\ steps' = Append(steps, Step("symtab_create", 0))
    /\ i' = 1
    /\ pc' = "run"
    /\ UNCHANGED <<dry_run, oneline, seqno, idl, store, the_idl_txn, txn, txns,
                   status, stdout, stderr, warnings, exit_status, attempts,
                   parsed, argv_reads, optv, local_options, prereq_runs, retry_signals>>

\* The loop without the try_again test.
AfterRunIgnoresTryAgain(try_again) ==
    IF i < n_commands THEN "run" ELSE "symcheck"

\* The loop going straight to the commit.
AfterRunSkipsSymbolCheck(try_again) ==
    IF try_again THEN "try_again"
    ELSE IF i < n_commands THEN "run" ELSE "commit"

\* Where the loop over the commands goes after command i ran.
AfterRun(try_again) ==
    IF try_again THEN "try_again"
    ELSE IF i < n_commands THEN "run" ELSE "symcheck"

\* Lines 1188-1200: the mutate phase of command i, then the try_again test.
RunCommand ==
    /\ pc = "run"
    /\ LET c == commands[i]
           e == IF Syntax(c.syntax).run
                THEN Run(c, View(store, txns[txn].ops), symtab.sh)
                ELSE Ok(<<>>, <<>>, symtab.sh)
           tx == [txns EXCEPT ![txn].ops = @ \o e.ops]
       IN  /\ symtab' = [symtab EXCEPT !.sh = e.sh]
           /\ steps' = Append(steps, Step("run", i))
           /\ ctx' = [ctx EXCEPT !.try_again = e.kind = "try_again"]
           /\ retry_signals' = IF e.kind = "try_again"
                               THEN retry_signals \cup {<<txn, i>>}
                               ELSE retry_signals
           /\ IF e.kind = "fatal"
              THEN /\ ctl_fatal(e.msg, tx, idl)
                   /\ UNCHANGED <<commands, stdout, i>>
              ELSE /\ commands' = [commands EXCEPT
                                     ![i].output = ds_put(@, e.out),
                                     ![i].table = IF e.table THEN "table" ELSE @]
                   /\ stdout' = stdout \o
                        [k \in 1..Len(e.direct) |-> Block(i, e.direct[k], "run")]
                   /\ txns' = tx
                   /\ pc' = AfterRun(e.kind = "try_again")
                   /\ i' = IF pc' = "run" THEN i + 1 ELSE i
                   /\ UNCHANGED <<idl, stderr, exit_status>>
    /\ UNCHANGED <<dry_run, oneline, seqno, store, the_idl_txn, txn, status,
                   warnings, attempts, parsed, argv_reads, optv, local_options, prereq_runs>>

\* ------------------------------------------------------------------ symbols
\* The check with the created test left out.
UncreatedNone(sh) == {}

Uncreated(sh) == {s \in DOMAIN sh : ~sh[s].created}
Unreferenced(sh) == {s \in DOMAIN sh : sh[s].created /\ ~sh[s].strong_ref}

\* The VLOG_WARN of lines 1209-1219 for symbol s.
Warning(sh, s) ==
    IF ~sh[s].weak_ref THEN <<"created but no reference to it was inserted", s>>
    ELSE <<"created but only a weak reference to it was inserted", s>>

RECURSIVE Warnings(_, _)
Warnings(sh, S) ==
    IF S = {} THEN <<>>
    ELSE LET s == CHOOSE x \in S : TRUE
         IN  <<Warning(sh, s)>> \o Warnings(sh, S \ {s})

\* Lines 1202-1220: SHASH_FOR_EACH visits the symbols in hash order, so the
\* first uncreated symbol it meets is any of them, after any of the created
\* ones.
SymbolCheck ==
    /\ pc = "symcheck"
    /\ steps' = Append(steps, Step("symcheck", 0))
    /\ IF Uncreated(symtab.sh) # {}
       THEN \E u \in Uncreated(symtab.sh), B \in SUBSET Unreferenced(symtab.sh) :
               /\ warnings' = warnings \o Warnings(symtab.sh, B)
               /\ ctl_fatal(<<"is referenced but never created", u>>, txns, idl)
       ELSE /\ warnings' = warnings \o Warnings(symtab.sh, Unreferenced(symtab.sh))
            /\ pc' = "commit"
            /\ UNCHANGED <<txns, idl, stderr, exit_status>>
    /\ UNCHANGED <<i, commands, dry_run, oneline, seqno, store, the_idl_txn, txn,
                   symtab, ctx, status, stdout, attempts, parsed, argv_reads, optv, local_options, prereq_runs, retry_signals>>

\* ------------------------------------------------------------------ commit
\* The store after the operations of a committed transaction.
Apply(ops, st) ==
    [st EXCEPT !.sw = @ + Cardinality({k \in 1..Len(ops) :
                                         /\ ops[k].op = "insert"
                                         /\ ops[k].table = "Logical_Switch"})]

\* The test taking try-again for a commit too.
CommittedOrTryAgain(st) == st \in {TXN_UNCHANGED, TXN_SUCCESS, TXN_TRY_AGAIN}

\* if (status == TXN_UNCHANGED || status == TXN_SUCCESS)
Committed(st) == st \in {TXN_UNCHANGED, TXN_SUCCESS}

\* The commit returning without waiting for the session.
CommitReturnsAtOnce(p) == FALSE

\* ovsdb_idl_txn_commit_block(txn) at position p: the call returns only when
\* the session has the outcome of the transaction (it never returns
\* TXN_INCOMPLETE), so the process sleeps in it until the reply has come.
InCommitBlock(p) == p = "commit"

\* Line 1222: ovsdb_idl_txn_commit_block(txn).  The session decides the
\* outcome; while it waits for the reply it processes updates, so the
\* sequence number may advance: this is shown for the try-again outcome, the
\* only one after which the program reads the sequence number or the replica
\* again.  A dry-run transaction persists nothing.
Commit ==
    /\ pc = "commit"
    /\ \E st \in TxnStatus :
         \E s \in (IF st = TXN_TRY_AGAIN THEN NextSeqnos(idl.seqno) ELSE {idl.seqno}) :
         \E other \in (IF s > idl.seqno THEN Stores ELSE {store}) :
            /\ status' = st
            /\ idl' = [idl EXCEPT !.seqno = s]
            /\ store' = IF st = TXN_SUCCESS /\ ~txns[txn].dry_run
                        THEN Apply(txns[txn].ops, store) ELSE other
            /\ txns' = [txns EXCEPT
                          ![txn].commits = @ + 1,
                          ![txn].status = st,
                          ![txn].state = IF Committed(st) THEN "committed" ELSE @,
                          ![txn].error = IF st = TXN_ERROR THEN "constraint violation"
                                         ELSE @,
                          ![txn].applied = IF st = TXN_SUCCESS /\ ~txns[txn].dry_run
                                           THEN txns[txn].ops ELSE @]
            /\ pc' = IF Committed(st) THEN "postprocess" ELSE "classify"
    /\ steps' = Append(steps, Step("commit", 0))
    /\ i' = 1
    /\ UNCHANGED <<commands, dry_run, oneline, seqno, the_idl_txn, txn, symtab, ctx,
                   stdout, stderr, warnings, exit_status, attempts, parsed, argv_reads, optv, local_options,
                   prereq_runs, retry_signals>>

\* (c->syntax->postprocess)(&ctx): what the post-commit phase of c does:
\* kind is "ok", with the text it leaves in the output, or "fatal", with the
\* diagnostic of ctl_fatal().
RunPostprocess(c) ==
    IF c.syntax = "post-fatal"
    THEN [kind |-> "fatal", text |-> <<>>, msg |-> <<"post-commit phase failed">>]
    ELSE [kind |-> "ok", text |-> post_create(c), msg |-> <<>>]

\* Lines 1223-1231: the post-commit phase of command i.
Postprocess ==
    /\ pc = "postprocess"
    /\ IF Syntax(commands[i].syntax).postprocess
       THEN LET e == RunPostprocess(commands[i])
            IN  /\ ctx' = ctl_context_init(txn, "symtab")
                /\ steps' = Append(steps, Step("postprocess", i))
                /\ IF e.kind = "fatal"
                   THEN /\ ctl_fatal(e.msg, txns, idl)
                        /\ UNCHANGED commands
                   ELSE /\ commands' = [commands EXCEPT ![i].output =
                                          [string |-> "allocated", text |-> e.text]]
                        /\ pc' = IF i < n_commands THEN "postprocess" ELSE "classify"
                        /\ UNCHANGED <<txns, idl, stderr, exit_status>>
       ELSE /\ pc' = IF i < n_commands THEN "postprocess" ELSE "classify"
            /\ UNCHANGED <<commands, ctx, steps, txns, idl, stderr, exit_status>>
    /\ i' = IF pc' = "exited" THEN i ELSE IF i < n_commands THEN i + 1 ELSE 1
    /\ UNCHANGED <<dry_run, oneline, seqno, store, the_idl_txn, txn,
                   symtab, status, stdout, warnings,
                   attempts, parsed, argv_reads, optv, local_options, prereq_runs, retry_signals>>

\* The switch with TXN_ERROR treated as a success.
OutcomeIgnoresError(st) ==
    CASE st \in {TXN_UNCOMMITTED, TXN_INCOMPLETE} -> "abort"
      [] st = TXN_ABORTED -> "fatal"
      [] st \in {TXN_UNCHANGED, TXN_SUCCESS, TXN_ERROR} -> "break"
      [] st = TXN_TRY_AGAIN -> "try_again"
      [] st = TXN_NOT_LOCKED -> "fatal"
      [] OTHER -> "abort"

\* The switch with TXN_SUCCESS sent to the try_again label.
OutcomeRetriesSuccess(st) ==
    CASE st \in {TXN_UNCOMMITTED, TXN_INCOMPLETE} -> "abort"
      [] st = TXN_ABORTED -> "fatal"
      [] st = TXN_UNCHANGED -> "break"
      [] st \in {TXN_TRY_AGAIN, TXN_SUCCESS} -> "try_again"
      [] st = TXN_ERROR -> "fatal"
      [] st = TXN_NOT_LOCKED -> "fatal"
      [] OTHER -> "abort"

\* The switch with TXN_ABORTED falling into the try_again label.
OutcomeRetriesAborted(st) ==
    CASE st \in {TXN_UNCOMMITTED, TXN_INCOMPLETE} -> "abort"
      [] st \in {TXN_UNCHANGED, TXN_SUCCESS} -> "break"
      [] st \in {TXN_TRY_AGAIN, TXN_ABORTED} -> "try_again"
      [] st = TXN_ERROR -> "fatal"
      [] st = TXN_NOT_LOCKED -> "fatal"
      [] OTHER -> "abort"

\* Lines 1234-1259: the case of the switch a status selects: "abort"
\* (OVS_NOT_REACHED), "fatal" (ctl_fatal), "break" or "try_again".
Outcome(st) ==
    CASE st \in {TXN_UNCOMMITTED, TXN_INCOMPLETE} -> "abort"
      [] st = TXN_ABORTED -> "fatal"
      [] st \in {TXN_UNCHANGED, TXN_SUCCESS} -> "break"
      [] st = TXN_TRY_AGAIN -> "try_again"
      [] st = TXN_ERROR -> "fatal"
      [] st = TXN_NOT_LOCKED -> "fatal"
      [] OTHER -> "abort"

\* The diagnostic of the ctl_fatal() cases; error is ovsdb_idl_txn_get_error().
FatalMessage(st, error) ==
    CASE st = TXN_ABORTED -> <<"transaction aborted">>
      [] st = TXN_ERROR -> <<"transaction error", error>>
      [] st = TXN_NOT_LOCKED -> <<"database not locked">>

\* Lines 1232-1262: the switch on the commit status; after a break, the
\* symbol table is destroyed and the output loop starts.
Classify ==
    /\ pc = "classify"
    /\ steps' = Append(steps, Step("classify", 0))
    /\ CASE Outcome(status) = "abort" ->
              /\ ovs_abort(<<"unreachable code">>)
              /\ UNCHANGED <<symtab, i>>
         [] Outcome(status) = "fatal" ->
              /\ ctl_fatal(FatalMessage(status, txns[txn].error), txns, idl)
              /\ UNCHANGED <<symtab, i>>
         [] Outcome(status) = "break" ->
              /\ symtab' = ovsdb_symbol_table_destroy(symtab)
              /\ i' = 1
              /\ pc' = "output"
              /\ UNCHANGED <<txns, idl, stderr, exit_status>>
         [] Outcome(status) = "try_again" ->
              /\ pc' = "try_again"
              /\ UNCHANGED <<symtab, i, txns, idl, stderr, exit_status>>
    /\ UNCHANGED <<commands, dry_run, oneline, seqno, store, the_idl_txn, txn, ctx,
                   status, stdout, warnings, attempts, parsed, argv_reads, optv, local_options, prereq_runs,
                   retry_signals>>

\* Lines 1264-1297: the output of command i, then the release of its
\* output, table and options.
Output ==
    /\ pc = "output"
    /\ LET text == OutputBlock(commands[i])
       IN  stdout' = IF text = <<>> THEN stdout
                     ELSE Append(stdout, Block(i, text, "output"))
    /\ commands' = [commands EXCEPT ![i] = [ResetOutput(@) EXCEPT !.options = {}]]
    /\ steps' = Append(steps, Step("output", i))
    /\ IF i < n_commands
       THEN /\ i' = i + 1
            /\ pc' = "output"
       ELSE /\ i' = 1
            /\ pc' = "done"
    /\ UNCHANGED <<dry_run, oneline, seqno, idl, store, the_idl_txn, txn, txns,
                   symtab, ctx, status, stderr, warnings, exit_status, attempts,
                   parsed, argv_reads, optv, local_options, prereq_runs, retry_signals>>

\* Lines 1298-1302 and 129-130: free the batch, destroy the transaction and
\* the session, return true; main() then exits with EXIT_SUCCESS.
ReturnTrue ==
    /\ pc = "done"
    /\ commands' = <<>>
    /\ txns' = [txns EXCEPT ![txn].destroys = @ + 1, ![txn].state = "destroyed"]
    /\ idl' = [idl EXCEPT !.destroyed = TRUE]
    /\ exit_status' = EXIT_SUCCESS
    /\ pc' = "exited"
    /\ UNCHANGED <<i, dry_run, oneline, seqno, store, the_idl_txn, txn, symtab, ctx,
                   status, stdout, stderr, warnings, steps, attempts, parsed, argv_reads, optv, local_options,
                   prereq_runs, retry_signals>>

\* The cleanup also releasing the options, as the output loop does.
DestroyOutputsAndOptions(cmds) ==
    [k \in 1..Len(cmds) |-> [ResetOutput(cmds[k]) EXCEPT !.options = {}]]

\* Lines 1313-1317: ds_destroy(&c->output), table_destroy(c->table) for
\* every command.
DestroyOutputs(cmds) == [k \in 1..Len(cmds) |-> ResetOutput(cmds[k])]

\* The handle left pointing at the transaction.
HandleKept(h) == h

\* the_idl_txn = NULL;
HandleCleared(h) == 0

\* Lines 1304-1319: abort and destroy the transaction, clear the global
\* handle, destroy the symbol table and the outputs, return false.
TryAgain ==
    /\ pc = "try_again"
    /\ IF txn # 0
       THEN /\ txns' = [AbortAndDestroy(txns, txn) EXCEPT ![txn].base = NoBase,
                                                          ![txn].mark = 0]
            /\ the_idl_txn' = HandleCleared(the_idl_txn)
       ELSE UNCHANGED <<txns, the_idl_txn>>
    /\ txn' = 0
    /\ symtab' = ovsdb_symbol_table_destroy(symtab)
    /\ commands' = DestroyOutputs(commands)
    /\ steps' = Append(steps, Step("return_false", 0))
    /\ pc' = "wait_check"
    /\ UNCHANGED <<i, dry_run, oneline, seqno, idl, store, ctx, status, stdout,
                   stderr, warnings, exit_status, attempts, parsed, argv_reads, optv, local_options, prereq_runs, retry_signals>>

Next ==
    \/ RunPrerequisites
    \/ MainRun
    \/ MainCheckSeqno
    \/ MainWaitCheck
    \/ PollBlock
    \/ TxnCreate
    \/ AddComment
    \/ SymtabCreate
    \/ RunCommand
    \/ SymbolCheck
    \/ Commit
    \/ Postprocess
    \/ Classify
    \/ Output
    \/ ReturnTrue
    \/ TryAgain

Spec == Init /\ [][Next]_vars

\* The process is single-threaded and runs whenever it can: poll_block()
\* returns because ovsdb_idl_wait() registered the session's events.
\* The two output options play no part in the loop: they are left off here.
FairInit == Init /\ ~dry_run /\ ~oneline

FairSpec == FairInit /\ [][Next]_vars /\ WF_vars(Next)

\* ------------------------------------------------------------------ post-commit
\* The program over batches that also hold a command whose post-commit phase
\* fails, without --oneline.
PostPool ==
    { Cmd("acl-list", <<"sw0">>, {}),
      Cmd("lswitch-add", <<"sw0">>, {}),
      Cmd("create", <<"Logical_Switch", "name=sw0">>, {}),
      Cmd("post-fatal", <<>>, {}) }

PostBatches ==
    UNION { [1..n -> PostPool] : n \in 1..MaxCmds }

PostInit == InitWith(PostBatches) /\ ~oneline

PostSpec == PostInit /\ [][Next]_vars

\* ------------------------------------------------------------------ handlers
\* The mutate phases of lswitch-add and lport-add on their own: a batch of
\* one or two of these commands, in an attempt that has come to its first
\* mutate phase, on a replica with or without the switch and the port.
HandlerPool ==
    { Cmd("lswitch-add", args, {<<o, NULL>> : o \in opts}) :
        args \in {<<>>, <<"sw0">>},
        opts \in SUBSET {"--may-exist", "--add-duplicate"} }
    \cup
    { Cmd("lport-add", args, {<<o, NULL>> : o \in opts}) :
        args \in {<<"sw0", "lp0">>, <<"sw1", "lp0">>, <<"sw0", "lp0", "p0">>}
                 \cup {<<"sw0", "lp0", "p0", t>> :
                          t \in {"-1", "0", "4095", "4096", "x"}},
        opts \in SUBSET {"--may-exist"} }

HandlerBatches ==
    {<<c>> : c \in HandlerPool} \cup {<<c, d>> : c, d \in HandlerPool}

\* The Logical_Port rows named lp0 the replica can hold.
HandlerPorts ==
    { Port("lp0", l, pt[1], pt[2]) :
        l \in {"sw0", "sw1"},
        pt \in {<<NULL, -1>>, <<"p0", -1>>, <<"p0", 0>>, <<"p1", 0>>,
                <<"p0", 4095>>} }

HandlerStores ==
    {st \in [sw : 0..MaxRows, acl : {0}, lports : {{}} \cup {{r} : r \in HandlerPorts}] :
        \A r \in st.lports : r.lswitch = "sw0" => st.sw > 0}

HandlerInit ==
    /\ commands \in HandlerBatches
    /\ parsed = commands
    /\ dry_run = FALSE
    /\ oneline = FALSE
    /\ pc = "run"
    /\ i = 1
    /\ seqno = 1
    /\ idl = [seqno |-> 1, alive |-> TRUE, last_error |-> NULL, destroyed |-> FALSE]
    /\ store \in HandlerStores
    /\ the_idl_txn = 1
    /\ txn = 1
    /\ txns = <<[NewTxn EXCEPT !.comment = "ovs-nbctl: args", !.base = store]>>
    /\ symtab = ovsdb_symbol_table_create
    /\ ctx = ctl_context_init(1, "symtab")
    /\ status = TXN_UNCOMMITTED
    /\ stdout = <<>>
    /\ stderr = <<>>
    /\ warnings = <<>>
    /\ exit_status = RUNNING
    /\ steps = <<Step("txn_create", 0), Step("add_comment", 0),
                 Step("symtab_create", 0)>>
    /\ attempts = <<1>>
    /\ prereq_runs = [k \in 1..Len(commands) |-> 0]
    /\ retry_signals = {}
    /\ optv = <<>>
    /\ local_options = <<>>
    /\ argv_reads = <<>>

HandlerNext == RunCommand

HandlerSpec == HandlerInit /\ [][HandlerNext]_vars

\* ------------------------------------------------------------------ options
\* An option as getopt_long() returns it: c the code of its entry in the
\* options array, name the entry's name (without the dashes), arg optarg.
Option(c, name, arg) == [c |-> c, name |-> name, arg |-> arg]

\* The global options --dry-run and --oneline, and the command-specific
\* options that ctl_add_cmd_options() appends with the code OPT_LOCAL.
Options ==
    { Option("OPT_DRY_RUN", <<"dry-run">>, NULL),
      Option("OPT_ONELINE", <<"oneline">>, NULL),
      Option("OPT_LOCAL", <<"may-exist">>, NULL),
      Option("OPT_LOCAL", <<"add-duplicate">>, NULL),
      Option("OPT_LOCAL", <<"id">>, "@a"),
      Option("OPT_LOCAL", <<"id">>, "@b") }

\* shash_find(sh, name): a node whose key is name.
shash_find(sh, name) == \E k \in 1..Len(sh) : sh[k].name = name

\* shash_add_nocopy(sh, name, data): a new node, whatever the keys present.
shash_add_nocopy(sh, name, data) == Append(sh, [name |-> name, data |-> data])

\* xasprintf("--%s", name)
WithDashes(name) == <<"--">> \o name

\* The state when parse_options() is called: nothing parsed yet.
ParseInit ==
    /\ optv \in UNION {[1..n -> Options] : n \in 0..MaxOpts}
    /\ local_options = <<>>
    /\ argv_reads = <<>>
    /\ commands = <<>>
    /\ parsed = <<>>
    /\ dry_run = FALSE
    /\ oneline = FALSE
    /\ pc = "parse_options"
    /\ i = 1
    /\ seqno = 0
    /\ idl = [seqno |-> 0, alive |-> TRUE, last_error |-> NULL, destroyed |-> FALSE]
    /\ store = [sw |-> 0, acl |-> 0, lports |-> {}]
    /\ the_idl_txn = 0
    /\ txn = 0
    /\ txns = <<>>
    /\ symtab = [live |-> FALSE, sh |-> NoSymbols]
    /\ ctx = ctl_context_init(0, NULL)
    /\ status = TXN_UNCOMMITTED
    /\ stdout = <<>>
    /\ stderr = <<>>
    /\ warnings = <<>>
    /\ exit_status = RUNNING
    /\ steps = <<>>
    /\ attempts = <<>>
    /\ prereq_runs = <<>>
    /\ retry_signals = {}

\* Lines 205-273: one turn of the getopt_long() loop of parse_options().
ParseOption ==
    /\ pc = "parse_options"
    /\ IF optv = <<>>
       THEN /\ pc' = "parse_commands"
            /\ UNCHANGED <<optv, local_options, dry_run, oneline, txns, idl,
                           stderr, exit_status>>
       ELSE LET o == Head(optv)
            IN  /\ optv' = Tail(optv)
                /\ dry_run' = (dry_run \/ o.c = "OPT_DRY_RUN")
                /\ oneline' = (oneline \/ o.c = "OPT_ONELINE")
                /\ IF o.c = "OPT_LOCAL" /\ shash_find(local_options, o.name)
                   THEN /\ ctl_fatal(<<"option specified multiple times", o.name>>,
                                     txns, idl)
                        /\ UNCHANGED local_options
                   ELSE /\ local_options' =
                             IF o.c = "OPT_LOCAL"
                             THEN shash_add_nocopy(local_options, WithDashes(o.name),
                                                   o.arg)
                             ELSE local_options
                        /\ UNCHANGED <<pc, txns, idl, stderr, exit_status>>
    /\ UNCHANGED <<i, commands, seqno, store, the_idl_txn, txn, symtab, ctx,
                   status, stdout, warnings, steps, attempts, parsed,
                   argv_reads, prereq_runs, retry_signals>>

ParseNext == ParseOption

ParseSpec == ParseInit /\ [][ParseNext]_vars

\* ------------------------------------------------------------------ read-phases
\* run_prerequisites() on its own, over batches that also hold commands
\* whose read-phase breaks the rule.
PrereqPool ==
    { Cmd("lswitch-list", <<>>, {}),
      Cmd("create", <<"Logical_Switch", "name=sw0">>, {<<"--id", "@a">>}),
      Cmd("list", <<"Logical_Switch">>, {}),
      Cmd("pre-output", <<>>, {}),
      Cmd("pre-clear", <<>>, {}),
      Cmd("pre-table", <<>>, {}) }

PrereqBatches ==
    UNION { [1..n -> PrereqPool] : n \in 1..MaxCmds }

PrereqInit == InitWith(PrereqBatches)

PrereqNext == RunPrerequisites

PrereqSpec == PrereqInit /\ [][PrereqNext]_vars

\* ------------------------------------------------------------------ output loop
\* The output loop on its own: a batch of one lswitch-list whose attempt has
\* committed and passed the switch, with any text in the output buffer (the
\* handler prints the names of the rows, which are arbitrary strings the
\* store above does not carry).
Chars == {"a", "n", LF, BS}

ExampleText == <<"a", LF, "b", BS, "c", LF>>

Texts == UNION {[1..n -> Chars] : n \in 0..MaxLen} \cup {ExampleText}

OutputInit ==
    /\ parsed = <<Cmd("lswitch-list", <<>>, {})>>
    /\ \E t \in Texts :
          commands = [parsed EXCEPT ![1].output = ds_put(@, t)]
    /\ dry_run = FALSE
    /\ oneline \in BOOLEAN
    /\ pc = "output"
    /\ i = 1
    /\ seqno = 1
    /\ idl = [seqno |-> 1, alive |-> TRUE, last_error |-> NULL, destroyed |-> FALSE]
    /\ store = [sw |-> 1, acl |-> 0, lports |-> {}]
    /\ the_idl_txn = 1
    /\ txn = 1
    /\ txns = <<[NewTxn EXCEPT !.state = "committed", !.comment = "ovs-nbctl: args",
                                !.status = TXN_UNCHANGED, !.commits = 1,
                                !.base = [sw |-> 1, acl |-> 0, lports |-> {}]]>>
    /\ symtab = ovsdb_symbol_table_destroy(ovsdb_symbol_table_create)
    /\ ctx = ctl_context_init(1, "symtab")
    /\ status = TXN_UNCHANGED
    /\ stdout = <<>>
    /\ stderr = <<>>
    /\ warnings = <<>>
    /\ exit_status = RUNNING
    /\ steps = <<Step("txn_create", 0), Step("add_comment", 0),
                 Step("symtab_create", 0), Step("run", 1), Step("symcheck", 0),
                 Step("commit", 0), Step("classify", 0)>>
    /\ attempts = <<1>>
    /\ prereq_runs = <<0>>
    /\ retry_signals = {}
    /\ optv = <<>>
    /\ local_options = <<>>
    /\ argv_reads = <<>>

OutputNext ==
    \/ Output
    \/ ReturnTrue

OutputSpec == OutputInit /\ [][OutputNext]_vars

\* ------------------------------------------------------------------ claims
Last(seq) == seq[Len(seq)]

RECURSIVE CommitsOf(_)
CommitsOf(tx) == IF tx = <<>> THEN 0 ELSE Head(tx).commits + CommitsOf(Tail(tx))

\* Number of calls of ovsdb_idl_txn_commit_block() in the run so far.
CommitCount == CommitsOf(txns)

EveryCommitSucceeded ==
    \A k \in 1..Len(txns) :
        txns[k].commits > 0 => txns[k].status \in {TXN_SUCCESS, TXN_UNCHANGED}

Exited == pc = "exited"
ExitedNonZero == Exited /\ exit_status \in {EXIT_FAILURE, SIGABRT}

\* C1: in a run where no mutate phase signalled retry and every commit
\* reported success or unchanged, commit was invoked exactly once, the
\* process is past the commit on the way to the exit, and when it has
\* exited its status is 0.
C1_CommitOnceExitZero ==
    (retry_signals = {} /\ CommitCount >= 1 /\ EveryCommitSucceeded)
        => /\ CommitCount = 1
           /\ pc \in {"postprocess", "classify", "output", "done", "exited"}
           /\ exit_status \in {RUNNING, EXIT_SUCCESS}
           /\ Exited => exit_status = EXIT_SUCCESS

C1_Witness ==
    /\ Exited
    /\ exit_status = EXIT_SUCCESS
    /\ retry_signals = {}
    /\ CommitCount = 1
    /\ txns[1].status = TXN_SUCCESS

\* The symbols of the table whose created flag is false.
NeverCreated == {s \in DOMAIN symtab.sh : symtab.sh[s].created = FALSE}

SymbolCheckRan == steps # <<>> /\ \E k \in 1..Len(steps) : steps[k].step = "symcheck"

\* C2: if the symbol check of an attempt finds a symbol that was never
\* created, the transaction of that attempt is never committed and the
\* process has exited with a failure status and a single diagnostic naming a
\* symbol that was never created; the commit is never reached with such a
\* symbol in the table.
C2_UncreatedSymbolIsFatal ==
    /\ (SymbolCheckRan /\ NeverCreated # {})
          => /\ ExitedNonZero
             /\ txns[Len(txns)].commits = 0
             /\ Len(stderr) = 1
             /\ stderr[1][1] = "is referenced but never created"
             /\ stderr[1][2] \in NeverCreated
    /\ pc = "commit" => NeverCreated = {}

C2_Witness ==
    /\ SymbolCheckRan
    /\ Cardinality(NeverCreated) = 2
    /\ Exited

SameCommand(c, d) ==
    /\ c.syntax = d.syntax
    /\ c.argv = d.argv
    /\ c.options = d.options

\* C3: at the start of every attempt each command has the name, arguments,
\* options and handler that parsing gave it.
C3_BatchUnchangedAcrossAttempts ==
    pc \in {"txn_create", "add_comment", "symtab_create", "run"}
        => /\ Len(commands) = Len(parsed)
           /\ \A k \in 1..Len(parsed) : SameCommand(commands[k], parsed[k])

C3_Witness ==
    /\ pc = "txn_create"
    /\ Len(txns) >= 1
    /\ txns[Len(txns)].status = TXN_TRY_AGAIN
    /\ \E k \in 1..Len(parsed) : parsed[k].options # {}

\* C4: between attempts no symbol table is live and none holds a symbol, the
\* first mutate phase of every attempt sees an empty table, and when an
\* attempt opens its transaction every earlier transaction has been
\* destroyed.
C4_FreshSymbolTablePerAttempt ==
    /\ pc \in {"loop", "check_seqno", "wait_check", "poll_block", "txn_create",
               "add_comment", "symtab_create"}
          => ~symtab.live /\ DOMAIN symtab.sh = {}
    /\ (pc = "run" /\ i = 1) => symtab.live /\ DOMAIN symtab.sh = {}
    /\ pc = "txn_create" => \A k \in 1..Len(txns) : txns[k].state = "destroyed"
    /\ pc \in {"add_comment", "symtab_create", "run", "symcheck", "commit"}
          => \A k \in 1..(Len(txns) - 1) : txns[k].state = "destroyed"

C4_Witness ==
    /\ pc = "run"
    /\ i = 1
    /\ Len(txns) = 2
    /\ parsed[1].syntax = "create"
    /\ txns[1].status = TXN_TRY_AGAIN

\* C5: the blocks on standard output are in command order: no block of a
\* later command precedes a block of an earlier one.
C5_OutputInCommandOrder ==
    \A k, l \in 1..Len(stdout) : k < l => stdout[k].cmd <= stdout[l].cmd

\* C6: no attempt is made for the sequence number read at start-up, no two
\* attempts are made for the same sequence number, every attempt runs with
\* seqno equal to the session's number it started for, and the loop starts
\* an attempt exactly when the two numbers differ.
C6_OneAttemptPerSeqno ==
    /\ [](/\ \A k \in 1..Len(attempts) : attempts[k] # 0
          /\ \A k, l \in 1..Len(attempts) : k < l => attempts[k] < attempts[l]
          /\ Len(txns) <= Len(attempts)
          /\ attempts # <<>> => seqno = Last(attempts))
    /\ [][pc = "check_seqno" =>
            IF seqno # idl.seqno
            THEN pc' = "txn_create" /\ seqno' = idl.seqno
            ELSE pc' = "wait_check" /\ attempts' = attempts]_vars
    /\ [][attempts' # attempts => pc = "check_seqno" /\ seqno # idl.seqno]_vars

C6_Witness ==
    /\ Len(attempts) = 3
    /\ pc = "txn_create"

\* C7: the switch on the commit status: success and unchanged lead to the
\* output and to exit status 0, try-again to the cleanup that returns false
\* to the loop, error to a fatal exit with the session's error string, every
\* other value to a non-zero exit.
C7_OutcomeClassification ==
    /\ [][pc = "classify" =>
            /\ status \in {TXN_SUCCESS, TXN_UNCHANGED}
                  => pc' = "output" /\ exit_status' = RUNNING
            /\ status = TXN_TRY_AGAIN
                  => pc' = "try_again" /\ exit_status' = RUNNING
            /\ status = TXN_ERROR
                  => /\ pc' = "exited"
                     /\ exit_status' = EXIT_FAILURE
                     /\ stderr' = Append(stderr, <<"transaction error", txns[txn].error>>)
            /\ status \notin {TXN_SUCCESS, TXN_UNCHANGED, TXN_TRY_AGAIN, TXN_ERROR}
                  => /\ pc' = "exited"
                     /\ exit_status' \in {EXIT_FAILURE, SIGABRT}
                     /\ Len(stderr') = Len(stderr) + 1]_vars
    /\ [][pc = "try_again" => pc' = "wait_check" /\ exit_status' = RUNNING]_vars
    /\ [](pc \in {"output", "done"} => status \in {TXN_SUCCESS, TXN_UNCHANGED})
    /\ [](exit_status = EXIT_SUCCESS => status \in {TXN_SUCCESS, TXN_UNCHANGED})
    /\ [](\A k \in 1..(Len(txns) - 1) :
            txns[k].commits > 0 => txns[k].status = TXN_TRY_AGAIN)

C7_Witness ==
    /\ Exited
    /\ status = TXN_ERROR
    /\ stderr = << <<"transaction error", "constraint violation">> >>
    /\ exit_status = EXIT_FAILURE

StepsOf(kind) == {k \in 1..Len(steps) : steps[k].step = kind}

\* C8: when the mutate phase of command c set try_again in an attempt, that
\* attempt runs no later command, no symbol check and no commit; once past
\* the cleanup its transaction has been aborted and destroyed once, the
\* symbol table is gone and the attempt returned false to the loop.
C8_RetrySignalEndsAttempt ==
    \A r \in retry_signals :
        /\ txns[r[1]].commits = 0
        /\ r[1] < Len(txns) =>
              /\ txns[r[1]].state = "destroyed"
              /\ txns[r[1]].aborts = 1
              /\ txns[r[1]].destroys = 1
        /\ r[1] = Len(txns) =>
              /\ \A k \in StepsOf("run") : steps[k].cmd <= r[2]
              /\ StepsOf("symcheck") = {}
              /\ StepsOf("commit") = {}
              /\ \/ pc = "try_again" /\ exit_status = RUNNING
                 \/ /\ Last(steps).step = "return_false"
                    /\ txns[r[1]].state = "destroyed"
                    /\ txns[r[1]].aborts = 1
                    /\ txns[r[1]].destroys = 1
                    /\ ~symtab.live
                    /\ pc \in {"wait_check", "poll_block", "loop", "check_seqno",
                               "txn_create", "exited"}

C8_Witness ==
    /\ pc = "wait_check"
    /\ Len(parsed) = 2
    /\ <<Len(txns), 1>> \in retry_signals

\* C9: the session's liveness is tested in every iteration before the
\* sequence number is looked at: a dead session ends the process with a
\* failure status and the diagnostic carrying the session's last error, with
\* no transaction open; an attempt starts only from the sequence-number test
\* of an iteration that found the session alive.
C9_DeadSessionIsFatal ==
    /\ [](~idl.alive =>
            /\ Exited
            /\ exit_status = EXIT_FAILURE
            /\ stderr = << <<"database connection failed", idl.last_error>> >>
            /\ Len(txns) = Len(attempts)
            /\ \A k \in 1..Len(txns) : txns[k].state = "destroyed")
    /\ [][pc' = "check_seqno" => pc = "loop" /\ idl'.alive]_vars
    /\ [][pc' = "txn_create" => pc = "check_seqno" /\ idl.alive]_vars

C9_Witness ==
    /\ ~idl.alive
    /\ Exited
    /\ Len(txns) = 1

\* The steps of an attempt up to the commit, in the order of the code.
AttemptOrder ==
    <<Step("txn_create", 0), Step("add_comment", 0), Step("symtab_create", 0)>>
    \o [k \in 1..Len(parsed) |-> Step("run", k)]
    \o <<Step("symcheck", 0), Step("commit", 0)>>

\* C10: the steps of an attempt are taken in the order: open the
\* transaction (dry-run as configured), attach the comment, create the symbol
\* table, the mutate phases in command order, the symbol check, the commit;
\* a mutate phase runs on an open, commented transaction with a live symbol
\* table.
C10_AttemptStepOrder ==
    /\ LET order == AttemptOrder
       IN  \A k \in 1..Len(steps) :
              steps[k].step \in {"txn_create", "add_comment", "symtab_create",
                                 "run", "symcheck", "commit"}
                 => k <= Len(order) /\ steps[k] = order[k]
    /\ pc \in {"run", "symcheck", "commit"} =>
          /\ txn # 0
          /\ txns[txn].state = "open"
          /\ txns[txn].dry_run = dry_run
          /\ txns[txn].comment # NULL
          /\ symtab.live
    /\ pc = "commit" => Len(steps) = Len(AttemptOrder) - 1

C10_Witness ==
    /\ steps # <<>>
    /\ Last(steps).step = "commit"
    /\ Len(parsed) = 2
    /\ dry_run
    /\ Len(txns) = 2

\* The warnings emitted so far, over all attempts, that name symbol s.
WarningsFor(s) == {k \in 1..Len(warnings) : warnings[k][2] = s}

\* C11: counting all attempts of the run, once the symbol check of an
\* attempt has passed, a created symbol with a strong reference has no
\* warning and a created symbol without one has exactly one warning; the
\* attempt goes on to the commit.
C11_OneWarningPerSymbol ==
    pc \in {"commit", "postprocess", "classify"} =>
        \A s \in DOMAIN symtab.sh :
            symtab.sh[s].created =>
                Cardinality(WarningsFor(s)) = IF symtab.sh[s].strong_ref THEN 0 ELSE 1

\* C12: the prerequisite phase of every command that has one runs exactly
\* once, before any transaction exists and with a context whose transaction
\* and symbol table are absent; no attempt, first or retry, runs it again.
C12_PrerequisitesRunOnce ==
    /\ [](pc # "prerequisites" =>
            \A k \in 1..Len(parsed) :
                prereq_runs[k] = IF Syntax(parsed[k].syntax).prerequisites
                                 THEN 1 ELSE 0)
    /\ [](pc = "prerequisites" => txns = <<>> /\ attempts = <<>>)
    /\ [][prereq_runs' # prereq_runs =>
            /\ pc = "prerequisites"
            /\ txns = <<>> /\ txns' = <<>>
            /\ the_idl_txn = 0
            /\ ~symtab.live
            /\ ctx'.txn = 0
            /\ ctx'.symtab = NULL]_vars

C12_Witness ==
    /\ pc = "run"
    /\ Len(attempts) = 2
    /\ Syntax(parsed[1].syntax).prerequisites
    /\ prereq_runs[1] = 1

\* The commit outcomes the claims call success: success or unchanged.
Succeeded(st) == st \in {TXN_SUCCESS, TXN_UNCHANGED}

\* The steps of the current attempt that ran a post-commit phase.
PostSteps == StepsOf("postprocess")

\* C13: a post-commit phase runs only after the commit of its attempt
\* reported success or unchanged and before the output loop writes the first
\* block of output; the post-commit phases run in command order and, once
\* they are done, every command that has one has run it; after any other
\* commit outcome none runs.
C13_PostCommitPhases ==
    /\ \A p \in PostSteps :
          /\ \E c \in StepsOf("commit") : c < p
          /\ \A o \in StepsOf("output") : p < o
          /\ Succeeded(txns[Len(txns)].status)
          /\ Syntax(parsed[steps[p].cmd].syntax).postprocess
    /\ \A p, q \in PostSteps : p < q => steps[p].cmd < steps[q].cmd
    /\ (pc \in {"classify", "output", "done"} /\ Succeeded(status))
          => {steps[p].cmd : p \in PostSteps}
                = {k \in 1..Len(parsed) : Syntax(parsed[k].syntax).postprocess}
    /\ pc = "postprocess"
          => \A b \in 1..Len(stdout) : stdout[b].phase # "output"
    /\ (StepsOf("commit") # {} /\ ~Succeeded(status)) => PostSteps = {}

C13_Witness ==
    /\ pc = "output"
    /\ i = 1
    /\ Len(txns) = 2
    /\ txns[1].status = TXN_TRY_AGAIN
    /\ Cardinality(PostSteps) = 2

\* The process ended in ctl_fatal() called by a mutate phase or by the symbol
\* check.
FatalInAttempt ==
    /\ Exited
    /\ steps # <<>>
    /\ Last(steps).step \in {"run", "symcheck"}

\* C14: when a mutate phase or the symbol check ended the process, the
\* transaction of that attempt was never committed and is discarded, and no
\* transaction of the run persisted an operation; the store changes only
\* through a commit that persists operations or through an update of the
\* session that is not of this run.
C14_FatalPersistsNothing ==
    /\ [](FatalInAttempt =>
            /\ exit_status = EXIT_FAILURE
            /\ txns[Len(txns)].commits = 0
            /\ \A k \in 1..Len(txns) :
                  txns[k].applied = <<>> /\ txns[k].state = "destroyed")
    /\ [][store' # store =>
            \/ idl'.seqno # idl.seqno
            \/ pc = "commit" /\ txns'[txn].applied # <<>>]_vars

C14_Witness ==
    /\ FatalInAttempt
    /\ Len(txns) = 2
    /\ txns[1].commits = 1
    /\ txns[2].ops # <<>>
    /\ Last(steps) = Step("run", 2)

\* The fatal condition, if any, that the step about to be taken meets.
FatalCondition ==
    \/ pc = "run" /\ Run(commands[i], View(store, txns[txn].ops), symtab.sh).kind = "fatal"
    \/ pc = "symcheck" /\ NeverCreated # {}
    \/ pc = "classify" /\ status \notin {TXN_SUCCESS, TXN_UNCHANGED, TXN_TRY_AGAIN}

C16_RetriedAttemptWritesNothing ==
    /\ (pc = "run" /\ i = 1) =>
          \A k \in 1..Len(commands) :
              commands[k].output.text = <<>> /\ commands[k].table = NULL
    /\ pc = "try_again" => stdout = <<>>

\* The text with one trailing newline removed if present.
WithoutTrailingNewline(t) ==
    IF t # <<>> /\ Last(t) = LF THEN SubSeq(t, 1, Len(t) - 1) ELSE t

\* Reads an escaped line back: backslash n is a newline, two backslashes are
\* one; a backslash followed by anything else, or by nothing, is not an
\* escape and reads as "?".
RECURSIVE Unescape(_)
Unescape(b) ==
    IF b = <<>> THEN <<>>
    ELSE IF Head(b) # BS THEN <<Head(b)>> \o Unescape(Tail(b))
    ELSE IF Len(b) >= 2 /\ b[2] = "n" THEN <<LF>> \o Unescape(SubSeq(b, 3, Len(b)))
    ELSE IF Len(b) >= 2 /\ b[2] = BS THEN <<BS>> \o Unescape(SubSeq(b, 3, Len(b)))
    ELSE <<"?">>

CountOf(t, ch) == Cardinality({k \in 1..Len(t) : t[k] = ch})

\* line is the single line that stands for text t.
IsSingleLineOf(line, t) ==
    LET body == SubSeq(line, 1, Len(line) - 1)
        u == WithoutTrailingNewline(t)
    IN  /\ line # <<>>
        /\ Last(line) = LF
        /\ CountOf(body, LF) = 0
        /\ Len(body) = Len(u) + CountOf(u, LF) + CountOf(u, BS)
        /\ Unescape(body) = u

\* C17: in single-line mode the output loop writes, for a command without a
\* table, one block: the command's text without one trailing newline, every
\* other newline written as backslash n and every backslash as two
\* backslashes, the other characters as they are and in order, then one
\* newline; the text a LF b \ c LF gives a \ n b \ \ c LF.
C17_SingleLineEscaping ==
    [][(pc = "output" /\ oneline /\ commands[i].table = NULL) =>
          /\ Len(stdout') = Len(stdout) + 1
          /\ IsSingleLineOf(Last(stdout').text, commands[i].output.text)
          /\ commands[i].output.text = ExampleText =>
                Last(stdout').text = <<"a", BS, "n", "b", BS, BS, "c", LF>>]_vars

C17_Witness ==
    /\ oneline
    /\ pc = "done"
    /\ stdout = <<Block(1, <<"a", BS, "n", "b", BS, BS, "c", LF>>, "output")>>

\* Everything written to standard output for command k, in order.
RECURSIVE OutputOf(_, _)
OutputOf(out, k) ==
    IF out = <<>> THEN <<>>
    ELSE (IF Head(out).cmd = k THEN Head(out).text ELSE <<>>) \o OutputOf(Tail(out), k)

\* C18: with --oneline, when the process has ended with status 0, what was
\* written for each command of the batch is exactly one line: it holds one
\* newline, which is its last character.
C18_OneLinePerCommand ==
    (oneline /\ Exited /\ exit_status = EXIT_SUCCESS) =>
        \A k \in 1..Len(parsed) :
            LET text == OutputOf(stdout, k)
            IN  /\ text # <<>>
                /\ Last(text) = LF
                /\ CountOf(text, LF) = 1

\* The mutate phases of commands j..m replayed on the replica st, with the
\* operations ops queued and the symbols sh so far: the blocks the handlers
\* wrote themselves, and what each command left in its buffer and table.
RECURSIVE ReplayFrom(_, _, _, _, _)
ReplayFrom(j, m, st, ops, sh) ==
    IF j > m THEN [direct |-> <<>>, outs |-> <<>>]
    ELSE LET e == Run(parsed[j], View(st, ops), sh)
             rest == ReplayFrom(j + 1, m, st, ops \o e.ops, e.sh)
         IN  [direct |-> [b \in 1..Len(e.direct) |-> Block(j, e.direct[b], "run")]
                            \o rest.direct,
              outs |-> <<[text |-> e.out, table |-> e.table]>> \o rest.outs]

\* The number of commands whose mutate phase ran in attempt k, once its
\* loop over the commands is over.
RanIn(k) ==
    IF \E r \in retry_signals : r[1] = k
    THEN (CHOOSE r \in retry_signals : r[1] = k)[2]
    ELSE Len(parsed)

Replay(k) == ReplayFrom(1, RanIn(k), txns[k].base, <<>>, NoSymbols)

\* The blocks of the output loop for commands j.. of the last attempt.
RECURSIVE DispatchFrom(_, _)
DispatchFrom(j, outs) ==
    IF j > Len(parsed) THEN <<>>
    ELSE LET text == IF Syntax(parsed[j].syntax).postprocess
                     THEN post_create(parsed[j]) ELSE outs[j].text
             block == OutputBlock([table |-> IF outs[j].table THEN "table" ELSE NULL,
                                   output |-> [text |-> text]])
         IN  (IF block = <<>> THEN <<>> ELSE <<Block(j, block, "output")>>)
                \o DispatchFrom(j + 1, outs)

\* Standard output grew by exactly the blocks more since attempt k began.
GrewBy(k, more) ==
    /\ Len(stdout) = txns[k].mark + Len(more)
    /\ SubSeq(stdout, txns[k].mark + 1, Len(stdout)) = more

\* C19: with --dry-run the transaction of every attempt is marked dry-run
\* from its creation on, so before any mutate phase and before the commit;
\* no transaction of the run persists an operation and a successful commit
\* leaves the store as it was; the run ends with status 0 after a commit that
\* reported success or unchanged.  Standard output only grows, and what an
\* attempt adds to it follows from the batch, the single-line option, the
\* replica the attempt saw and the place it stopped, with or without
\* --dry-run: the same batch on the same replica writes the same output.
C19_DryRunPersistsNothing ==
    /\ [](dry_run =>
            \A k \in 1..Len(txns) : txns[k].dry_run /\ txns[k].applied = <<>>)
    /\ [][(dry_run /\ pc = "commit") =>
            store' = store \/ idl'.seqno # idl.seqno]_vars
    /\ [][Len(stdout') >= Len(stdout) /\ SubSeq(stdout', 1, Len(stdout)) = stdout]_vars
    /\ [](pc = "try_again" => GrewBy(txn, Replay(txn).direct))
    /\ []((Exited /\ steps # <<>> /\ Last(steps).step = "output") =>
            /\ Succeeded(status)
            /\ exit_status = EXIT_SUCCESS
            /\ GrewBy(txn, Replay(txn).direct \o DispatchFrom(1, Replay(txn).outs)))

C19_Witness ==
    /\ dry_run
    /\ Exited
    /\ exit_status = EXIT_SUCCESS
    /\ Len(txns) = 2
    /\ txns[2].status = TXN_SUCCESS
    /\ txns[2].ops # <<>>
    /\ store = txns[2].base
    /\ stdout # <<>>

\* The session is never found dead.
SessionStaysAlive == []idl.alive

\* After every failed attempt the session's sequence number comes to differ
\* from the one the loop holds.
VersionChangesAfterFailure ==
    []((pc = "poll_block" /\ attempts # <<>>) => <>(seqno # idl.seqno))

\* Whenever the loop blocks in poll_block(), before the first attempt as
\* after a failed one, the session's sequence number later differs from the
\* one the loop holds: the session delivers its initial contents, and a new
\* version after every failed attempt.
VersionKeepsChanging == [](pc = "poll_block" => <>(seqno # idl.seqno))

\* From some point on no attempt ends in retry and nothing is fatal: no
\* mutate phase signals retry or fails, and every commit reports success or
\* unchanged.
EventuallyNoRetry == <>[](pc # "try_again" /\ ~ExitedNonZero)

Terminates == <>(Exited /\ exit_status = EXIT_SUCCESS)

\* C20, as stated: if the session stays alive, its version changes after
\* every failed attempt and from some point on every attempt runs without a
\* retry signal and commits with success or unchanged, the process
\* eventually ends with exit status 0.
C20_TerminatesAfterRetries ==
    (SessionStaysAlive /\ VersionChangesAfterFailure /\ EventuallyNoRetry)
        => Terminates

\* C20, amended: the loop starts an attempt whenever the sequence number
\* changed, however many attempts were made; if the session stays alive,
\* delivers its initial contents and a new version after every failed
\* attempt, and from some point on every attempt runs without a retry signal
\* and commits with success or unchanged, the process eventually ends with
\* exit status 0.
C20_RetryLoopTerminates ==
    /\ [][(pc = "check_seqno" /\ seqno # idl.seqno) => pc' = "txn_create"]_vars
    /\ (SessionStaysAlive /\ VersionKeepsChanging /\ EventuallyNoRetry)
          => Terminates

C20_Witness ==
    /\ Exited
    /\ exit_status = EXIT_SUCCESS
    /\ Len(txns) = 3
    /\ txns[1].status = TXN_TRY_AGAIN
    /\ \E c \in 1..Len(parsed) : <<2, c>> \in retry_signals

\* C21: an iteration that did not end the process comes to the test before
\* the wait step, from the sequence-number test when no attempt was made or
\* from the cleanup of an attempt that returned false; the loop then blocks
\* exactly when the session's sequence number equals seqno, and otherwise
\* starts the next iteration at once; nothing else leads to the wait step.
C21_BlocksIffVersionUnchanged ==
    /\ [][pc = "wait_check" =>
            /\ (pc' = "poll_block") <=> (seqno = idl.seqno)
            /\ (pc' = "loop") <=> (seqno # idl.seqno)
            /\ seqno' = seqno /\ idl' = idl /\ exit_status' = RUNNING]_vars
    /\ [][pc' = "poll_block" => pc = "wait_check" /\ seqno = idl.seqno]_vars
    /\ [][pc' = "wait_check" =>
            /\ exit_status' = RUNNING
            /\ \/ pc = "check_seqno" /\ seqno = idl.seqno
               \/ pc = "try_again"]_vars
    /\ [][(pc = "try_again" /\ seqno # idl.seqno) => pc' = "wait_check"]_vars

\* The version changed while the attempt was running: the loop is back at
\* its head without having blocked.
C21_Witness ==
    /\ pc = "loop"
    /\ seqno # idl.seqno
    /\ Len(txns) = 1
    /\ txns[1].status = TXN_TRY_AGAIN

\* The process is suspended until the session has something for it.
Suspended == InPollBlock(pc) \/ InCommitBlock(pc)

\* The phases that never wait for the session.
NonBlockingPhases ==
    {"prerequisites", "check_seqno", "wait_check", "txn_create", "add_comment",
     "symtab_create", "run", "symcheck", "postprocess", "classify", "output",
     "done", "try_again"}

ReadPhaseDone ==
    {k \in 1..Len(parsed) :
        /\ Syntax(parsed[k].syntax).prerequisites
        /\ prereq_runs[k] > 0}

RogueReadPhases == {"pre-output", "pre-clear", "pre-table"}

\* C23: while the process runs, every command whose read-phase has returned
\* has an output buffer that was never written and no table; a read-phase
\* that wrote output or set a table ends the process by a failed assertion,
\* at that command, with no later read-phase run, before any attempt and
\* any transaction.
C23_ReadPhaseLeavesNoOutput ==
    /\ [](exit_status = RUNNING =>
            \A k \in ReadPhaseDone :
                /\ commands[k].output.string = NULL
                /\ commands[k].output.text = <<>>
                /\ commands[k].table = NULL)
    /\ [][(pc = "prerequisites" /\ parsed[i].syntax \in RogueReadPhases) =>
            /\ pc' = "exited"
            /\ exit_status' = SIGABRT
            /\ Len(stderr') = 1
            /\ txns' = <<>> /\ the_idl_txn' = 0 /\ attempts' = <<>>
            /\ \A k \in (i + 1)..Len(parsed) : prereq_runs'[k] = 0]_vars
    /\ [][(pc = "prerequisites" /\ parsed[i].syntax \notin RogueReadPhases) =>
            exit_status' = RUNNING]_vars
    /\ [](pc = "loop" =>
            \A k \in 1..Len(parsed) : parsed[k].syntax \notin RogueReadPhases)

C23_Witness ==
    /\ Exited
    /\ exit_status = SIGABRT
    /\ i = 2
    /\ parsed[1].syntax = "create"
    /\ parsed[2].syntax = "pre-table"
    /\ commands[1].output.string = NULL
    /\ txns = <<>>

\* C24: the engine calls abort on no transaction: none in the run, whatever
\* its commit reported, has been aborted, and the transaction of a commit
\* that reported try-again is destroyed without an abort.
C24_EngineNeverAborts ==
    \A k \in 1..Len(txns) : txns[k].aborts = 0

\* The options of the command line that parse_options() has taken so far.
RECURSIVE KeysOf(_)
KeysOf(sh) == IF sh = <<>> THEN {} ELSE {Head(sh).name} \cup KeysOf(Tail(sh))

\* C25: the map of command-specific options never holds two entries for
\* the same option: giving one a second time ends the parsing with a fatal
\* error.
C25_LocalOptionGivenOnce ==
    /\ Cardinality(KeysOf(local_options)) = Len(local_options)
    /\ \A k, l \in 1..Len(local_options) :
          k # l => local_options[k].name # local_options[l].name

\* The operations queued on the transaction of the attempt.
QueuedOps == txns[txn].ops

\* A mutate phase of the command named verb is about to run.
AboutToRun(verb) == pc = "run" /\ commands[i].syntax = verb

\* The cached view, rows inserted earlier in the attempt included, holds a
\* switch named name.
ViewHoldsSwitch(name) ==
    \/ name = "sw0" /\ store.sw > 0
    \/ \E k \in 1..Len(QueuedOps) :
          /\ QueuedOps[k].op = "insert"
          /\ QueuedOps[k].table = "Logical_Switch"
          /\ QueuedOps[k].name = name

\* The step ends the process with a diagnostic and queues nothing.
FatalAndQueuesNothing ==
    /\ pc' = "exited"
    /\ exit_status' = EXIT_FAILURE
    /\ Len(stderr') = Len(stderr) + 1
    /\ txns'[txn].ops = QueuedOps
    /\ txns'[txn].commits = 0

\* The step returns to the engine and queues exactly the operations more.
ReturnsAndQueues(more) ==
    /\ pc' # "exited"
    /\ exit_status' = RUNNING
    /\ stderr' = stderr
    /\ txns'[txn].ops = QueuedOps \o more

\* C26: lswitch-add NAME when the view holds a switch named NAME: without a
\* flag it is fatal and queues no insert, with --may-exist it returns and
\* queues no insert, with --add-duplicate it queues the insert of a row
\* named NAME; both flags together, or a flag without a NAME, are fatal and
\* queue no insert.
C26_LswitchAddOnExistingName ==
    [][AboutToRun("lswitch-add") =>
          LET c == commands[i]
              named == Len(c.argv) = 2
              may_exist == <<"--may-exist", NULL>> \in c.options
              add_duplicate == <<"--add-duplicate", NULL>> \in c.options
          IN  /\ (may_exist /\ add_duplicate) => FatalAndQueuesNothing
              /\ (~named /\ (may_exist \/ add_duplicate)) => FatalAndQueuesNothing
              /\ (named /\ ViewHoldsSwitch(c.argv[2])) =>
                    /\ (~may_exist /\ ~add_duplicate) => FatalAndQueuesNothing
                    /\ (may_exist /\ ~add_duplicate) => ReturnsAndQueues(<<>>)
                    /\ (add_duplicate /\ ~may_exist) =>
                          ReturnsAndQueues(<<InsertSwitch(c.argv[2])>>)]_vars

\* --add-duplicate queued a second row named sw0 after the first command of
\* the batch had queued one, on a replica that holds one already.
C26_Witness ==
    /\ pc = "symcheck"
    /\ store.sw = 1
    /\ Len(parsed) = 2
    /\ parsed[2].options = {<<"--add-duplicate", NULL>>}
    /\ QueuedOps = <<InsertSwitch("sw0"), InsertSwitch("sw0")>>

\* The number of switches named sw0 in the cached view, rows inserted
\* earlier in the attempt included.
SwitchesInView ==
    store.sw + Cardinality({k \in 1..Len(QueuedOps) :
                              /\ QueuedOps[k].op = "insert"
                              /\ QueuedOps[k].table = "Logical_Switch"
                              /\ QueuedOps[k].name = "sw0"})

\* The cached view holds no port yet.
NoPortInView ==
    /\ store.lports = {}
    /\ \A k \in 1..Len(QueuedOps) : QueuedOps[k].table # "Logical_Port"

\* The TAG arguments that are integers in 0..4095, and their values.
TagOf(t) == IF t = "0" THEN 0 ELSE IF t = "4095" THEN 4095 ELSE -1

\* C27: lport-add with three positional arguments, or with four and a TAG
\* that is not an integer in 0..4095, is fatal and queues neither the insert
\* of the port nor a change of the switch's ports; with two positional
\* arguments, or four and a TAG in 0..4095, on a view with the switch and
\* without the port, it queues the insert of the port (with parent and tag
\* when given) and the new port list of the switch.
C27_LportAddArity ==
    [][AboutToRun("lport-add") =>
          LET c == commands[i]
              positional == Len(c.argv) - 1
              tag == IF positional = 4 THEN TagOf(c.argv[5]) ELSE -1
          IN  /\ positional \in 2..4
              /\ positional = 3 => FatalAndQueuesNothing
              /\ (positional = 4 /\ tag = -1) => FatalAndQueuesNothing
              /\ ( /\ positional = 2 \/ (positional = 4 /\ tag >= 0)
                   /\ c.argv[2] = "sw0"
                   /\ SwitchesInView = 1
                   /\ NoPortInView ) =>
                    ReturnsAndQueues(
                        <<InsertPort(Port(c.argv[3], "sw0",
                                          IF positional = 4 THEN c.argv[4] ELSE NULL,
                                          tag)),
                          SetPorts("sw0", c.argv[3])>>)]_vars

\* Three positional arguments on a view that holds the switch: fatal, with
\* only the first command's insert queued.
C27_Witness ==
    /\ Exited
    /\ exit_status = EXIT_FAILURE
    /\ i = 2
    /\ parsed[1].syntax = "lswitch-add"
    /\ parsed[2].syntax = "lport-add"
    /\ Len(parsed[2].argv) = 4
    /\ stderr = << <<"lport-add with parent must also specify a tag">> >>
    /\ txns[1].ops = <<InsertSwitch("sw0")>>

\* The transactions that have been created and not destroyed.
LiveTxns == {k \in 1..Len(txns) : txns[k].state # "destroyed"}

\* C28: at most one transaction is live at any time; every attempt opens
\* exactly one transaction, whether its commands read or write, so the k-th
\* attempt runs on the k-th transaction; the transaction of an attempt that
\* returned false is destroyed, once, before the loop goes on, so none is
\* live when the next one is opened.
C28_OneLiveTransaction ==
    /\ [](Cardinality(LiveTxns) <= 1)
    /\ [](LiveTxns # {} => LiveTxns = {Len(txns)} /\ txn = Len(txns))
    /\ [](\A k \in 1..Len(txns) : txns[k].destroys <= 1)
    /\ [](pc \in {"add_comment", "symtab_create", "run", "symcheck", "commit",
                  "postprocess", "classify", "output", "done", "try_again"}
            => Len(txns) = Len(attempts) /\ LiveTxns = {Len(txns)})
    /\ [](pc \in {"loop", "check_seqno", "wait_check", "poll_block", "txn_create"}
            => LiveTxns = {} /\ txn = 0)
    /\ [][pc = "txn_create" =>
            /\ Len(txns') = Len(txns) + 1
            /\ Len(txns') = Len(attempts)
            /\ LiveTxns = {}]_vars
    /\ [][Len(txns') # Len(txns) => pc = "txn_create"]_vars
    /\ [][pc = "try_again" =>
            /\ txns'[txn].state = "destroyed"
            /\ txns'[txn].destroys = 1
            /\ pc' = "wait_check"]_vars

\* The third attempt of a batch of read-only commands runs on the third
\* transaction, the two before it destroyed.
C28_Witness ==
    /\ pc = "run"
    /\ Len(txns) = 3
    /\ LiveTxns = {3}
    /\ \A k \in 1..Len(parsed) : Syntax(parsed[k].syntax).mode = "RO"

\* nbctl_exit() can still be called: the process has not ended.
CanExit == pc # "exited"

\* C29: while the process runs, the global transaction handle is null or
\* refers to a transaction that was created and is not destroyed; it is null
\* before the first attempt and between attempts and refers to the
\* transaction of the attempt inside one; no transaction is aborted or
\* destroyed more than once, and a destroyed transaction is never touched
\* again.
C29_ExitHandleNullOrLive ==
    /\ [](CanExit =>
            \/ the_idl_txn = 0
            \/ /\ the_idl_txn \in 1..Len(txns)
               /\ txns[the_idl_txn].state # "destroyed"
               /\ txns[the_idl_txn].destroys = 0
               /\ txns[the_idl_txn].aborts = 0)
    /\ [](pc \in {"prerequisites", "loop", "check_seqno", "wait_check",
                  "poll_block", "txn_create"} => the_idl_txn = 0)
    /\ [](pc \in {"add_comment", "symtab_create", "run", "symcheck", "commit",
                  "postprocess", "classify", "output", "done", "try_again"}
            => the_idl_txn = txn /\ txn = Len(txns))
    /\ [](\A k \in 1..Len(txns) : txns[k].aborts <= 1 /\ txns[k].destroys <= 1)
    /\ [][\A k \in 1..Len(txns) :
            txns[k].state = "destroyed" => txns'[k] = txns[k]]_vars

\* nbctl_exit() ran between two attempts, with the handle null: the
\* transaction of the first attempt was aborted and destroyed once.
C29_Witness ==
    /\ Exited
    /\ ~idl.alive
    /\ the_idl_txn = 0
    /\ Len(txns) = 1
    /\ txns[1].aborts = 1
    /\ txns[1].destroys = 1

\* The process ended in ctl_fatal() called by a post-commit phase.
FatalInPostCommit ==
    /\ Exited
    /\ steps # <<>>
    /\ Last(steps).step = "postprocess"

INT_MAX == 2147483647

Row(name, min_args, max_args) ==
    [name |-> name, min_args |-> min_args, max_args |-> max_args]

\* Lines 1339-1390: name, min_args and max_args of every row of nbctl_commands[].
nbctl_rows ==
    { Row("show", 0, 1),
      Row("lswitch-add", 0, 1),
      Row("lswitch-del", 1, 1),
      Row("lswitch-list", 0, 0),
      Row("acl-add", 5, 5),
      Row("acl-del", 1, 4),
      Row("acl-list", 1, 1),
      Row("lport-add", 2, 4),
      Row("lport-del", 1, 1),
      Row("lport-list", 1, 1),
      Row("lport-get-parent", 1, 1),
      Row("lport-get-tag", 1, 1),
      Row("lport-set-addresses", 1, INT_MAX),
      Row("lport-get-addresses", 1, 1),
      Row("lport-set-port-security", 0, INT_MAX),
      Row("lport-get-port-security", 1, 1),
      Row("lport-get-up", 1, 1),
      Row("lport-set-enabled", 2, 2),
      Row("lport-get-enabled", 1, 1),
      Row("lport-set-type", 2, 2),
      Row("lport-get-type", 1, 1),
      Row("lport-set-options", 1, INT_MAX),
      Row("lport-get-options", 1, 1) }

RowOf(name) == CHOOSE r \in nbctl_rows : r.name = name

\* The numbers of arguments the arity check lets through for row r, up to MaxArgs.
Admitted(r) ==
    { n \in r.min_args..MaxArgs : n <= r.max_args }

\* The indices a..b in order; none when b < a.
Indices(a, b) == [k \in 1..(b - a + 1) |-> a + k - 1]

\* A count of array elements passed as size_t: a negative int wraps to a
\* count larger than any vector; the reads are followed as far as
\* MaxArgs + 2 elements.
size_t(n) == IF n < 0 THEN MaxArgs + 2 ELSE n

\* nbrec_logical_port_set_addresses(lport, argv + first, n) and its like:
\* the column setter copies n elements starting at argv[first].
SetterReads(first, n) == Indices(first, first + size_t(n) - 1)

\* The indices of ctx->argv the handler of name reads, in order, when called
\* with argc words (the command name included).
ArgvReads(name, argc) ==
    CASE name \in {"show", "lswitch-add"} ->
            IF argc = 2 THEN <<1>> ELSE <<>>
      [] name = "lswitch-list" -> <<>>
      [] name = "acl-add" -> <<5, 1, 2, 3, 4>>
      [] name = "acl-del" ->
            IF argc = 2 \/ argc = 4 THEN <<1>>
            ELSE IF argc = 3 THEN <<1, 2>>
            ELSE <<1, 2, 3, 4>>
      [] name = "lport-add" ->
            IF argc = 3 THEN <<1, 2>>
            ELSE IF argc = 5 THEN <<1, 3, 4, 2>>
            ELSE <<1>>
      [] name \in {"lport-set-enabled", "lport-set-type"} -> <<1, 2>>
      [] name = "lport-set-addresses" ->
            <<1>> \o Indices(2, argc - 1) \o SetterReads(2, argc - 2)
      [] name = "lport-set-options" -> <<1>> \o Indices(2, argc - 1)
      [] name = "lport-set-port-security" -> <<1>> \o SetterReads(2, argc - 2)
      [] OTHER -> <<1>>

\* The commands the arity check lets through, one per row and number of arguments.
ArgPool ==
    UNION { { Cmd(r.name, [k \in 1..n |-> "arg"], {}) : n \in Admitted(r) } :
            r \in nbctl_rows }

\* A command on its own, or followed by one more command.
ArgBatches ==
    { <<c>> : c \in ArgPool } \cup { <<c, Cmd("lswitch-list", <<>>, {})>> : c \in ArgPool }

\* main()'s argv from the first command on: the commands' words with "--"
\* between commands and the null pointer that ends the vector.  A command's
\* argv points into this vector.
RECURSIVE ProcessArgv(_)
ProcessArgv(batch) ==
    IF batch = <<>> THEN <<NULL>>
    ELSE IF Len(batch) = 1 THEN Head(batch).argv \o <<NULL>>
    ELSE Head(batch).argv \o <<"--">> \o ProcessArgv(Tail(batch))

\* Where command k's argv[0] is in ProcessArgv.
RECURSIVE ArgvOffset(_, _)
ArgvOffset(batch, k) ==
    IF k = 1 THEN 1 ELSE Len(batch[1].argv) + 1 + ArgvOffset(Tail(batch), k - 1)

\* What a read of argv[index] by command k can yield: the element of the
\* vector, or, outside the vector, whatever the memory holds.
ArgvValues(batch, k, index) ==
    LET v == ProcessArgv(batch)
        p == ArgvOffset(batch, k) + index
    IN  IF p <= Len(v) THEN {v[p]} ELSE {NULL, "garbage"}

ArgInit ==
    /\ commands \in ArgBatches
    /\ parsed = commands
    /\ dry_run = FALSE
    /\ oneline = FALSE
    /\ pc = "run"
    /\ i = 1
    /\ seqno = 1
    /\ idl = [seqno |-> 1, alive |-> TRUE, last_error |-> NULL, destroyed |-> FALSE]
    /\ store = NoBase
    /\ the_idl_txn = 1
    /\ txn = 1
    /\ txns = <<[NewTxn EXCEPT !.comment = "ovs-nbctl: args", !.base = store]>>
    /\ symtab = ovsdb_symbol_table_create
    /\ ctx = ctl_context_init(1, "symtab")
    /\ status = TXN_UNCOMMITTED
    /\ stdout = <<>>
    /\ stderr = <<>>
    /\ warnings = <<>>
    /\ exit_status = RUNNING
    /\ steps = <<Step("txn_create", 0), Step("add_comment", 0),
                 Step("symtab_create", 0)>>
    /\ attempts = <<1>>
    /\ prereq_runs = [k \in 1..Len(commands) |-> 0]
    /\ retry_signals = {}
    /\ optv = <<>>
    /\ local_options = <<>>
    /\ argv_reads = <<>>

\* The handler of command i reads its next element of ctx->argv.
ReadArg ==
    /\ pc = "run"
    /\ LET c == commands[i]
           todo == ArgvReads(c.syntax, Argc(c))
       IN  /\ Len(argv_reads) < Len(todo)
           /\ \E v \in ArgvValues(commands, i, todo[Len(argv_reads) + 1]) :
                 argv_reads' = Append(argv_reads,
                     [index |-> todo[Len(argv_reads) + 1], value |-> v])
    /\ UNCHANGED <<pc, i, commands, dry_run, oneline, seqno, idl, store,
                   the_idl_txn, txn, txns, symtab, ctx, status, stdout, stderr,
                   warnings, exit_status, steps, attempts, parsed, optv,
                   local_options, prereq_runs, retry_signals>>

\* Lines 1188-1199: the handler of command i returns; the loop goes on.
HandlerReturn ==
    /\ pc = "run"
    /\ Len(argv_reads) = Len(ArgvReads(commands[i].syntax, Argc(commands[i])))
    /\ steps' = Append(steps, Step("run", i))
    /\ argv_reads' = <<>>
    /\ IF i < n_commands
       THEN /\ i' = i + 1
            /\ UNCHANGED pc
       ELSE /\ pc' = "symcheck"
            /\ UNCHANGED i
    /\ UNCHANGED <<commands, dry_run, oneline, seqno, idl, store,
                   the_idl_txn, txn, txns, symtab, ctx, status, stdout, stderr,
                   warnings, exit_status, attempts, parsed, optv,
                   local_options, prereq_runs, retry_signals>>

ArgNext == ReadArg \/ HandlerReturn

ArgSpec == ArgInit /\ [][ArgNext]_vars

\* name's handler reads argv[index] whatever the admitted number of arguments.
Unconditional(name, index) ==
    \A n \in Admitted(RowOf(name)) :
        \E j \in 1..Len(ArgvReads(name, n + 1)) : ArgvReads(name, n + 1)[j] = index

\* C31: every element of ctx->argv a handler has read lies within the words
\* the command was given, and an index the handler reads for every admitted
\* number of arguments is at most the min_args of the command's row.
C31_ReadsWithinArguments ==
    pc = "run" =>
        \A j \in 1..Len(argv_reads) :
            /\ argv_reads[j].index < Argc(commands[i])
            /\ Unconditional(commands[i].syntax, argv_reads[j].index)
                  => argv_reads[j].index <= RowOf(commands[i].syntax).min_args

\* C32: seqno changes only in the step that starts an attempt; when an
\* attempt starts seqno equals the session's sequence number; every change
\* of seqno is an increase, so the values of seqno at which successive
\* attempts start, which attempts records, are strictly increasing.
C32_SeqnoFollowsSessionAtAttempts ==
    /\ [][seqno' # seqno =>
            /\ pc = "check_seqno"
            /\ pc' = "txn_create"
            /\ seqno' > seqno]_vars
    /\ [][pc' = "txn_create" =>
            /\ pc = "check_seqno"
            /\ seqno' = idl'.seqno
            /\ idl'.seqno = idl.seqno
            /\ attempts' = Append(attempts, seqno')]_vars
    /\ [](pc = "txn_create" => seqno = idl.seqno /\ Last(attempts) = seqno)
    /\ [][idl'.seqno >= idl.seqno]_vars
    /\ [](\A k \in 1..(Len(attempts) - 1) : attempts[k] < attempts[k + 1])

\* The second attempt starts, at a later sequence number than the first.
C32_Witness ==
    /\ pc = "txn_create"
    /\ Len(attempts) = 2
    /\ attempts[1] < attempts[2]
    /\ seqno = attempts[2]
    /\ txns[1].status = TXN_TRY_AGAIN
====
